---- MODULE Spec2Model ----
(***************************************************************************)
(* picoDSP-Edit: the preset wire/storage protocol (src/src/protocol.rs)    *)
(* and the editor's handling of the shared preset bank (src/src/main.rs,   *)
(* src/src/ui.rs).                                                         *)
(*                                                                         *)
(* Conventions.  A byte is a number in 0..255.  A Rust String is modelled  *)
(* by the sequence of its UTF-8 bytes (what String::as_bytes returns).     *)
(* A u32 is modelled by its two 16-bit halves, [hi |-> 0..65535,           *)
(* lo |-> 0..65535] (the checker's integers are 32-bit signed, a u32 does  *)
(* not fit one), and an f32 by its 32-bit pattern (f32::to_bits) held the  *)
(* same way, so that "the same float" means "the same bit pattern".        *)
(* Rust offsets are 0-based, TLA+ sequences 1-based: buf[offset] in the    *)
(* source is buf[offset + 1] here.                                         *)
(***************************************************************************)
EXTENDS Integers, Sequences, FiniteSets, TLC

VARIABLES
    storage,                \* PicoEditApp.storage: the shared bank (Storage.presets)
    current_preset_index,   \* PicoEditApp.current_preset_index
    status_msg,             \* PicoEditApp.status_msg
    app,                    \* last handler run on the bank, what from_sysex returned to it, live threads
    codec,                  \* Preset::to_bytes / Preset::from_bytes / enum decoding: inputs and results
    framer,                 \* Storage::to_sysex / Storage::from_sysex: inputs, locals and results
    audio,                  \* PicoEditApp.audio: the AudioManager, its command queue and render callback
    live,                   \* LiveParams under test: cells, last_struct_hash, presets passed to update
    glide,                  \* PortamentoFreq: target, amount, shared state, last buffer written
    lfo,                    \* FastLfo: its fields and the last buffer written
    midi,                   \* the MIDI input callback: sysex_buffer, the chunks delivered, process_sysex calls
    scope                   \* AudioManager.scope_buffer under test: the buffer and the blocks copied into it

vars == <<storage, current_preset_index, status_msg, app, codec, framer, audio, live, glide, lfo,
          midi, scope>>

\* the MIDI reassembly buffer and the scope buffer
ioVars == <<midi, scope>>

\* no MIDI input connection (connect_input not run), and no scope buffer under test
IoIdle ==
    /\ midi = [pc |-> "none"]
    /\ scope = [pc |-> "none"]

\* the audio engine and the parts it owns
engineVars == <<audio, live, glide, lfo>>

\* PicoEditApp.audio == None (AudioManager::new failed), and the parts never constructed
EngineNone == [pc |-> "none"]

EngineAbsent ==
    /\ audio = EngineNone
    /\ live = EngineNone
    /\ glide = EngineNone
    /\ lfo = EngineNone
    /\ IoIdle

(***************************************************************************)
(* Protocol constants (protocol.rs:1-15).                                  *)
(***************************************************************************)
SYSEX_START == 240
SYSEX_END == 247
MANUFACTURER_ID == 125
MODEL_ID == 1
CMD_DUMP_REQ == 1
CMD_WRITE_REQ == 2
CMD_WRITE_SUCCESS == 3
CMD_WRITE_ERROR == 4
MAGIC == 1346655056
VERSION == 7
STORAGE_SIZE == 4096
PRESET_SIZE == 200
NAME_SIZE == 32

(***************************************************************************)
(* Generic helpers.                                                        *)
(***************************************************************************)
Min(a, b) == IF a < b THEN a ELSE b

\* a function over 1..n held as a sequence (a Vec or slice of the source)
AsVec(f) == << >> \o f

\* n copies of byte b
Rep(b, n) == AsVec([i \in 1..n |-> b])

\* buf[from..] of a Rust slice (0-based from); the caller checks from <= len
SliceFrom(s, from) == SubSeq(s, from + 1, Len(s))

(***************************************************************************)
(* Enumerations (protocol.rs:17-58).                                       *)
(***************************************************************************)
Waveforms == {"Sine", "Triangle", "Saw", "Square", "Noise"}
LfoWaveforms == {"Sine", "Triangle", "Saw", "Square"}

\* the u32 (or f32 bit pattern) of a number below 2^31
U32Of(n) == [hi |-> n \div 65536, lo |-> n % 65536]

\* `n as u32` of a usize: the low 32 bits
UsizeAsU32(n) == [hi |-> (n \div 65536) % 65536, lo |-> n % 65536]

\* `waveform as u32`: the discriminants of enum Waveform
WaveformAsU32(w) ==
    CASE w = "Sine" -> U32Of(0)
      [] w = "Triangle" -> U32Of(1)
      [] w = "Saw" -> U32Of(2)
      [] w = "Square" -> U32Of(3)
      [] w = "Noise" -> U32Of(4)

\* a variant of WaveformFrom whose catch-all arm yields the first variant
WaveformFromFallsBackToSine(val) ==
    CASE val = U32Of(1) -> "Triangle"
      [] val = U32Of(2) -> "Saw"
      [] val = U32Of(3) -> "Square"
      [] val = U32Of(4) -> "Noise"
      [] OTHER -> "Sine"

\* impl From<u32> for Waveform
WaveformFrom(val) ==
    CASE val = U32Of(0) -> "Sine"
      [] val = U32Of(1) -> "Triangle"
      [] val = U32Of(2) -> "Saw"
      [] val = U32Of(3) -> "Square"
      [] OTHER -> "Noise"

\* `waveform as u32`: the discriminants of enum LfoWaveform
LfoWaveformAsU32(w) ==
    CASE w = "Sine" -> U32Of(0)
      [] w = "Triangle" -> U32Of(1)
      [] w = "Saw" -> U32Of(2)
      [] w = "Square" -> U32Of(3)

\* impl From<u32> for LfoWaveform
LfoWaveformFrom(val) ==
    CASE val = U32Of(0) -> "Sine"
      [] val = U32Of(1) -> "Triangle"
      [] val = U32Of(2) -> "Saw"
      [] OTHER -> "Square"

(***************************************************************************)
(* Fixed-width little-endian fields (protocol.rs:201-219).                 *)
(***************************************************************************)
\* u32::to_le_bytes / f32::to_le_bytes on the bit pattern
LeBytes(val) == << val.lo % 256, val.lo \div 256, val.hi % 256, val.hi \div 256 >>

write_u32(buf, val) == buf \o LeBytes(val)
write_f32(buf, val) == buf \o LeBytes(val)

\* u32::from_le_bytes(buf[offset..offset+4]); offset is 0-based
read_u32(buf, offset) ==
    [lo |-> buf[offset + 1] + 256 * buf[offset + 2],
     hi |-> buf[offset + 3] + 256 * buf[offset + 4]]

read_f32(buf, offset) == read_u32(buf, offset)

\* `if flag { 1 } else { 0 }`
BoolAsU32(b) == IF b THEN U32Of(1) ELSE U32Of(0)

\* `read_u32(..) != 0`
U32AsBool(val) == val # U32Of(0)

(***************************************************************************)
(* String::from_utf8_lossy (protocol.rs:294), as the standard library's    *)
(* Utf8Chunks computes it: every maximal invalid prefix of an ill-formed   *)
(* sequence becomes one U+FFFD (EF BF BD), well-formed text is kept.       *)
(***************************************************************************)
REPLACEMENT == <<239, 191, 189>>

Utf8CharWidth(b) ==
    IF b < 128 THEN 1
    ELSE IF b >= 194 /\ b <= 223 THEN 2
    ELSE IF b >= 224 /\ b <= 239 THEN 3
    ELSE IF b >= 240 /\ b <= 244 THEN 4
    ELSE 0

\* safe_get: the byte at 0-based index i, or 0 past the end
SafeGet(s, i) == IF i < Len(s) THEN s[i + 1] ELSE 0

IsContinuation(b) == b >= 128 /\ b <= 191

\* second byte allowed after the lead byte of a 3-byte sequence
Second3Ok(lead, b) ==
    \/ lead = 224 /\ b >= 160 /\ b <= 191
    \/ lead >= 225 /\ lead <= 236 /\ IsContinuation(b)
    \/ lead = 237 /\ b >= 128 /\ b <= 159
    \/ lead >= 238 /\ lead <= 239 /\ IsContinuation(b)

\* second byte allowed after the lead byte of a 4-byte sequence
Second4Ok(lead, b) ==
    \/ lead = 240 /\ b >= 144 /\ b <= 191
    \/ lead >= 241 /\ lead <= 243 /\ IsContinuation(b)
    \/ lead = 244 /\ b >= 128 /\ b <= 143

\* The chunk starting at 0-based index i: how many bytes it spans and
\* whether they form one well-formed character.
Utf8Chunk(s, i) ==
    LET lead == s[i + 1]
        w == Utf8CharWidth(lead)
    IN  CASE w = 1 -> [len |-> 1, valid |-> TRUE]
          [] w = 2 ->
                IF IsContinuation(SafeGet(s, i + 1))
                THEN [len |-> 2, valid |-> TRUE]
                ELSE [len |-> 1, valid |-> FALSE]
          [] w = 3 ->
                IF ~Second3Ok(lead, SafeGet(s, i + 1)) THEN [len |-> 1, valid |-> FALSE]
                ELSE IF ~IsContinuation(SafeGet(s, i + 2)) THEN [len |-> 2, valid |-> FALSE]
                ELSE [len |-> 3, valid |-> TRUE]
          [] w = 4 ->
                IF ~Second4Ok(lead, SafeGet(s, i + 1)) THEN [len |-> 1, valid |-> FALSE]
                ELSE IF ~IsContinuation(SafeGet(s, i + 2)) THEN [len |-> 2, valid |-> FALSE]
                ELSE IF ~IsContinuation(SafeGet(s, i + 3)) THEN [len |-> 3, valid |-> FALSE]
                ELSE [len |-> 4, valid |-> TRUE]
          [] OTHER -> [len |-> 1, valid |-> FALSE]

RECURSIVE Utf8LossyFrom(_, _)
Utf8LossyFrom(s, i) ==
    IF i >= Len(s) THEN << >>
    ELSE LET c == Utf8Chunk(s, i)
         IN  (IF c.valid THEN SubSeq(s, i + 1, i + c.len) ELSE REPLACEMENT)
                 \o Utf8LossyFrom(s, i + c.len)

from_utf8_lossy(bytes) == Utf8LossyFrom(bytes, 0)

\* str::trim_matches(char::from(0)): NUL characters removed at both ends
trim_matches_nul(s) ==
    LET keep == {i \in 1..Len(s) : s[i] # 0}
    IN  IF keep = {} THEN << >>
        ELSE SubSeq(s, CHOOSE i \in keep : \A j \in keep : i <= j,
                       CHOOSE i \in keep : \A j \in keep : i >= j)

(***************************************************************************)
(* The Preset model and its defaults (protocol.rs:60-199).                 *)
(***************************************************************************)
\* bit patterns of 0.0, 1.0, 20000.0, 0.01 and 0.1
F32_0 == U32Of(0)
F32_1 == U32Of(1065353216)
F32_20000 == U32Of(1184645120)
F32_0_01 == U32Of(1008981770)
F32_0_1 == U32Of(1036831949)

\* "Init Patch"
InitPatchName == <<73, 110, 105, 116, 32, 80, 97, 116, 99, 104>>

OscSettingsDefault ==
    [waveform |-> "Saw", level |-> F32_1, octave |-> F32_0, detune |-> F32_0, vibrato |-> FALSE]

FilterSettingsDefault ==
    [cutoff |-> F32_20000, resonance |-> F32_0, env_amt |-> F32_0, attack |-> F32_0,
     decay |-> F32_0, sustain |-> F32_1, release |-> F32_0]

EnvSettingsDefault ==
    [attack |-> F32_0_01, decay |-> F32_0_1, sustain |-> F32_1, release |-> F32_0_1]

LfoSettingsDefault ==
    [freq |-> F32_1, waveform |-> "Sine", vib_amt |-> F32_0, filt_amt |-> F32_0]

DelaySettingsDefault ==
    [time |-> F32_0, feedback |-> F32_0, mix |-> F32_0, enabled |-> FALSE]

ReverbSettingsDefault ==
    [size |-> F32_0, damping |-> F32_0, mix |-> F32_0, enabled |-> FALSE]

PresetDefault ==
    [name |-> InitPatchName,
     osc1 |-> OscSettingsDefault,
     osc2 |-> [OscSettingsDefault EXCEPT !.level = F32_0],
     osc3 |-> [OscSettingsDefault EXCEPT !.level = F32_0],
     noise |-> F32_0,
     portamento |-> F32_0,
     filter |-> FilterSettingsDefault,
     amp |-> EnvSettingsDefault,
     lfo_enabled |-> FALSE,
     lfo |-> LfoSettingsDefault,
     delay |-> DelaySettingsDefault,
     reverb |-> ReverbSettingsDefault]

(***************************************************************************)
(* Preset::to_bytes (protocol.rs:222-287).                                 *)
(***************************************************************************)
\* a variant of NameField that copies the whole name (no `.min(32)`)
NameFieldUntruncated(name) ==
    AsVec([i \in 1..(IF Len(name) > NAME_SIZE THEN Len(name) ELSE NAME_SIZE) |->
              IF i <= Len(name) THEN name[i] ELSE 0])

\* the 32-byte name field: the first min(len, 32) bytes of the name, zero padded
NameField(name) ==
    LET len == Min(Len(name), NAME_SIZE)
    IN  AsVec([i \in 1..NAME_SIZE |-> IF i <= len THEN name[i] ELSE 0])

\* one pass of the loop over [&self.osc1, &self.osc2, &self.osc3]
WriteOsc(buf, osc) ==
    LET b1 == write_u32(buf, WaveformAsU32(osc.waveform))
        b2 == write_f32(b1, osc.level)
        b3 == write_f32(b2, osc.octave)
        b4 == write_f32(b3, osc.detune)
    IN  write_u32(b4, BoolAsU32(osc.vibrato))

WriteFilter(buf, f) ==
    LET b1 == write_f32(buf, f.cutoff)
        b2 == write_f32(b1, f.resonance)
        b3 == write_f32(b2, f.env_amt)
        b4 == write_f32(b3, f.attack)
        b5 == write_f32(b4, f.decay)
        b6 == write_f32(b5, f.sustain)
    IN  write_f32(b6, f.release)

WriteAmp(buf, e) ==
    LET b1 == write_f32(buf, e.attack)
        b2 == write_f32(b1, e.decay)
        b3 == write_f32(b2, e.sustain)
    IN  write_f32(b3, e.release)

WriteLfo(buf, l) ==
    LET b1 == write_f32(buf, l.freq)
        b2 == write_u32(b1, LfoWaveformAsU32(l.waveform))
        b3 == write_f32(b2, l.vib_amt)
    IN  write_f32(b3, l.filt_amt)

\* a variant of WriteDelay that writes feedback before time
WriteDelayFeedbackFirst(buf, d) ==
    LET b1 == write_f32(buf, d.feedback)
        b2 == write_f32(b1, d.time)
        b3 == write_f32(b2, d.mix)
    IN  write_u32(b3, BoolAsU32(d.enabled))

WriteDelay(buf, d) ==
    LET b1 == write_f32(buf, d.time)
        b2 == write_f32(b1, d.feedback)
        b3 == write_f32(b2, d.mix)
    IN  write_u32(b3, BoolAsU32(d.enabled))

WriteReverb(buf, r) ==
    LET b1 == write_f32(buf, r.size)
        b2 == write_f32(b1, r.damping)
        b3 == write_f32(b2, r.mix)
    IN  write_u32(b3, BoolAsU32(r.enabled))

to_bytes(self) ==
    LET b0 == NameField(self.name)
        b1 == WriteOsc(WriteOsc(WriteOsc(b0, self.osc1), self.osc2), self.osc3)
        b2 == write_f32(b1, self.noise)
        b3 == write_f32(b2, self.portamento)
        b4 == WriteFilter(b3, self.filter)
        b5 == WriteAmp(b4, self.amp)
        b6 == write_u32(b5, BoolAsU32(self.lfo_enabled))
        b7 == WriteLfo(b6, self.lfo)
        b8 == WriteDelay(b7, self.delay)
        b9 == WriteReverb(b8, self.reverb)
    IN  write_u32(b9, U32Of(0))

(***************************************************************************)
(* Preset::from_bytes (protocol.rs:289-381).  The reads are consecutive:   *)
(* the name at 0..32, then 42 four-byte fields, the last one (padding)     *)
(* ending at offset 200.  Slicing or reading past the end of `data`        *)
(* panics.                                                                 *)
(***************************************************************************)
\* offsets of the 4-byte reads, in the order from_bytes makes them
FieldOffsets == {NAME_SIZE + 4 * k : k \in 0..41}

\* from_bytes panics: &data[0..32] or a read_u32 / read_f32 slice is out of range
from_bytes_panics(data) ==
    \/ Len(data) < NAME_SIZE
    \/ \E o \in FieldOffsets : o + 4 > Len(data)

ReadName(data) == trim_matches_nul(from_utf8_lossy(SubSeq(data, 1, NAME_SIZE)))

\* a variant of ReadOsc that reads detune before octave
ReadOscDetuneFirst(data, offset) ==
    [waveform |-> WaveformFrom(read_u32(data, offset)),
     level |-> read_f32(data, offset + 4),
     octave |-> read_f32(data, offset + 12),
     detune |-> read_f32(data, offset + 8),
     vibrato |-> U32AsBool(read_u32(data, offset + 16))]

\* one pass of `for _ in 0..3`, the reads starting at offset
ReadOsc(data, offset) ==
    [waveform |-> WaveformFrom(read_u32(data, offset)),
     level |-> read_f32(data, offset + 4),
     octave |-> read_f32(data, offset + 8),
     detune |-> read_f32(data, offset + 12),
     vibrato |-> U32AsBool(read_u32(data, offset + 16))]

from_bytes(data) ==
    [name |-> ReadName(data),
     osc1 |-> ReadOsc(data, 32),
     osc2 |-> ReadOsc(data, 52),
     osc3 |-> ReadOsc(data, 72),
     noise |-> read_f32(data, 92),
     portamento |-> read_f32(data, 96),
     filter |-> [cutoff |-> read_f32(data, 100), resonance |-> read_f32(data, 104),
                 env_amt |-> read_f32(data, 108), attack |-> read_f32(data, 112),
                 decay |-> read_f32(data, 116), sustain |-> read_f32(data, 120),
                 release |-> read_f32(data, 124)],
     amp |-> [attack |-> read_f32(data, 128), decay |-> read_f32(data, 132),
              sustain |-> read_f32(data, 136), release |-> read_f32(data, 140)],
     lfo_enabled |-> U32AsBool(read_u32(data, 144)),
     lfo |-> [freq |-> read_f32(data, 148),
              waveform |-> LfoWaveformFrom(read_u32(data, 152)),
              vib_amt |-> read_f32(data, 156), filt_amt |-> read_f32(data, 160)],
     delay |-> [time |-> read_f32(data, 164), feedback |-> read_f32(data, 168),
                mix |-> read_f32(data, 172), enabled |-> U32AsBool(read_u32(data, 176))],
     reverb |-> [size |-> read_f32(data, 180), damping |-> read_f32(data, 184),
                 mix |-> read_f32(data, 188), enabled |-> U32AsBool(read_u32(data, 192))]]

(***************************************************************************)
(* Storage::to_sysex (protocol.rs:389-421).                                *)
(***************************************************************************)
\* the 16-byte header: magic, version, `self.presets.len() as u32`, padding
StorageHeader(presets) ==
    write_u32(write_u32(write_u32(write_u32(<< >>, U32Of(MAGIC)), U32Of(VERSION)),
                        UsizeAsU32(Len(presets))), U32Of(0))

\* `for preset in &self.presets { raw_data.extend_from_slice(&preset.to_bytes()) }`
RECURSIVE ExtendWithPresets(_, _, _)
ExtendWithPresets(raw_data, presets, k) ==
    IF k > Len(presets) THEN raw_data
    ELSE ExtendWithPresets(raw_data \o to_bytes(presets[k]), presets, k + 1)

\* `while raw_data.len() < STORAGE_SIZE { raw_data.push(0) }`
PadImage(raw_data) ==
    IF Len(raw_data) < STORAGE_SIZE
    THEN AsVec([i \in 1..STORAGE_SIZE |-> IF i <= Len(raw_data) THEN raw_data[i] ELSE 0])
    ELSE raw_data

\* raw_data as it is when the nibble loop starts
StorageImage(presets) == PadImage(ExtendWithPresets(StorageHeader(presets), presets, 1))

\* (byte >> 4) & 0x0F
HighNibble(byte) == (byte \div 16) % 16

\* a variant of LowNibble without the mask
LowNibbleUnmasked(byte) == byte

\* byte & 0x0F
LowNibble(byte) == byte % 16

\* every byte becomes its high nibble followed by its low nibble
Nibbleize(raw_data) ==
    AsVec([i \in 1..(2 * Len(raw_data)) |->
              IF i % 2 = 1 THEN HighNibble(raw_data[(i + 1) \div 2])
                           ELSE LowNibble(raw_data[i \div 2])])

\* vec![SYSEX_START, MANUFACTURER_ID, MODEL_ID, CMD_WRITE_REQ] ++ nibble_data ++ [SYSEX_END]
WrapFrame(nibble_data) ==
    <<SYSEX_START, MANUFACTURER_ID, MODEL_ID, CMD_WRITE_REQ>> \o nibble_data \o <<SYSEX_END>>

to_sysex(presets) == WrapFrame(Nibbleize(StorageImage(presets)))

(***************************************************************************)
(* Storage::from_sysex (protocol.rs:423-477).  The result is               *)
(*   [kind |-> "None"]  : the function returned None,                      *)
(*   [kind |-> "Some"]  : it returned Some(Storage { presets }),           *)
(*   [kind |-> "Panic"] : it did not return: a slice or a read was out of  *)
(*                        range and the thread panicked.                   *)
(***************************************************************************)
ResultNone == [kind |-> "None", presets |-> << >>]
ResultPanic == [kind |-> "Panic", presets |-> << >>]
ResultSome(presets) == [kind |-> "Some", presets |-> presets]

\* &msg[4..msg.len() - 1]
Payload(msg) == SubSeq(msg, 5, Len(msg) - 1)

\* a variant of CombineNibbles that adds the second byte of the pair unmasked
CombineNibblesLowUnmasked(high, low) == ((high * 16) + low) % 256

\* a variant of CombineNibbles that takes the pair in the other order
CombineNibblesLowFirst(high, low) == ((low * 16) % 256) + (high % 16)

\* (high << 4) | (low & 0x0F) on u8: the shift drops the bits above bit 7
CombineNibbles(high, low) == ((high * 16) % 256) + (low % 16)

\* payload.chunks(2) recombined; the length is even when this is reached, so
\* no chunk is short
Denibbleize(payload) ==
    AsVec([i \in 1..(Len(payload) \div 2) |->
              CombineNibbles(payload[2 * i - 1], payload[2 * i])])

\* k < num_presets, for a pass counter k below 65536 (the loop is left by a
\* panic long before k gets there)
PassesLeft(k, num_presets) == num_presets.hi > 0 \/ k < num_presets.lo

\* the loop `for _ in 0..num_presets`, from its pass k on: the presets pushed so far
RECURSIVE ReadPresets(_, _, _, _)
ReadPresets(data, offset, num_presets, presets) ==
    IF ~PassesLeft(Len(presets), num_presets) THEN ResultSome(presets)
    ELSE IF offset > Len(data) THEN ResultPanic
    ELSE LET slice == SliceFrom(data, offset)
         IN  IF from_bytes_panics(slice) THEN ResultPanic
             ELSE ReadPresets(data, offset + PRESET_SIZE, num_presets,
                              Append(presets, from_bytes(slice)))

\* a variant of FrameAccepted that only asks for a payload that is long enough
FrameAcceptedIfLongEnough(msg) ==
    /\ Len(msg) >= 5
    /\ msg[1] = SYSEX_START
    /\ msg[Len(msg)] = SYSEX_END
    /\ msg[2] = MANUFACTURER_ID
    /\ msg[3] = MODEL_ID
    /\ msg[4] = CMD_WRITE_REQ
    /\ Len(Payload(msg)) >= STORAGE_SIZE * 2

\* the checks made before the payload is touched
FrameAccepted(msg) ==
    /\ Len(msg) >= 5
    /\ msg[1] = SYSEX_START
    /\ msg[Len(msg)] = SYSEX_END
    /\ msg[2] = MANUFACTURER_ID
    /\ msg[3] = MODEL_ID
    /\ msg[4] = CMD_WRITE_REQ
    /\ Len(Payload(msg)) = STORAGE_SIZE * 2

from_sysex(msg) ==
    IF ~FrameAccepted(msg) THEN ResultNone
    ELSE LET data == Denibbleize(Payload(msg))
         IN  IF read_u32(data, 0) # U32Of(MAGIC) THEN ResultNone
             ELSE ReadPresets(data, 16, read_u32(data, 8), << >>)

(***************************************************************************)
(* Bounds and input samples.                                               *)
(***************************************************************************)
\* longest preset name tried, in bytes (one more than the name field holds)
MaxNameLen == 33
\* largest bank tried (one more than the 4096-byte image holds)
MaxBankSize == 21

\* f32 bit patterns tried: 0.0, a quiet NaN, -0.0, all ones (a NaN with sign)
FloatSamples ==
    {U32Of(0), U32Of(2143289344), [hi |-> 32768, lo |-> 0], [hi |-> 65535, lo |-> 65535]}

\* "é" (C3 A9), a two-byte character
EAcute == <<195, 169>>

\* U+1F3B9 (F0 9F 8E B9), a four-byte character whose first byte is 0xF0
PianoEmoji == <<240, 159, 142, 185>>

NameSamples ==
    { InitPatchName,
      << >>,
      <<65>>,
      EAcute,
      PianoEmoji,
      <<65, 0, 66>>,
      <<0, 65>>,
      <<65, 0>>,
      Rep(65, NAME_SIZE),
      Rep(65, NAME_SIZE - 2) \o EAcute,
      Rep(65, MaxNameLen),
      Rep(65, MaxNameLen - 2) \o EAcute }

\* the 31 f32 fields of a Preset, in the order to_bytes writes them
FloatFields == 1..31

FloatPatterns ==
    { [k \in FloatFields |-> x] : x \in FloatSamples }
        \cup { [k \in FloatFields |-> U32Of(270544960 + k * 16843009)] }

EnumPatterns ==
    { [w |-> <<"Sine", "Sine", "Sine">>, lw |-> "Sine",
       vib |-> <<FALSE, FALSE, FALSE>>, lfo |-> FALSE, delay |-> FALSE, reverb |-> FALSE],
      [w |-> <<"Triangle", "Saw", "Square">>, lw |-> "Triangle",
       vib |-> <<TRUE, FALSE, FALSE>>, lfo |-> FALSE, delay |-> FALSE, reverb |-> TRUE],
      [w |-> <<"Noise", "Noise", "Noise">>, lw |-> "Square",
       vib |-> <<TRUE, TRUE, TRUE>>, lfo |-> TRUE, delay |-> TRUE, reverb |-> TRUE],
      [w |-> <<"Saw", "Square", "Noise">>, lw |-> "Saw",
       vib |-> <<FALSE, TRUE, FALSE>>, lfo |-> TRUE, delay |-> FALSE, reverb |-> FALSE],
      [w |-> <<"Square", "Sine", "Triangle">>, lw |-> "Square",
       vib |-> <<FALSE, FALSE, TRUE>>, lfo |-> FALSE, delay |-> TRUE, reverb |-> FALSE] }

MkOsc(f, e, n) ==
    [waveform |-> e.w[n], level |-> f[3 * n - 2], octave |-> f[3 * n - 1],
     detune |-> f[3 * n], vibrato |-> e.vib[n]]

MkPreset(name, f, e) ==
    [name |-> name,
     osc1 |-> MkOsc(f, e, 1),
     osc2 |-> MkOsc(f, e, 2),
     osc3 |-> MkOsc(f, e, 3),
     noise |-> f[10],
     portamento |-> f[11],
     filter |-> [cutoff |-> f[12], resonance |-> f[13], env_amt |-> f[14], attack |-> f[15],
                 decay |-> f[16], sustain |-> f[17], release |-> f[18]],
     amp |-> [attack |-> f[19], decay |-> f[20], sustain |-> f[21], release |-> f[22]],
     lfo_enabled |-> e.lfo,
     lfo |-> [freq |-> f[23], waveform |-> e.lw, vib_amt |-> f[24], filt_amt |-> f[25]],
     delay |-> [time |-> f[26], feedback |-> f[27], mix |-> f[28], enabled |-> e.delay],
     reverb |-> [size |-> f[29], damping |-> f[30], mix |-> f[31], enabled |-> e.reverb]]

PresetSamples ==
    { [PresetDefault EXCEPT !.name = n] : n \in NameSamples }
        \cup { MkPreset(n, f, e) : n \in NameSamples, f \in FloatPatterns, e \in EnumPatterns }

\* stored 32-bit values tried for an enum field
U32Samples ==
    { U32Of(n) : n \in {0, 1, 2, 3, 4, 5, 255, 256, 65536, 16777216} }
        \cup { [hi |-> 32768, lo |-> 0], [hi |-> 65535, lo |-> 65535] }

(***************************************************************************)
(* Variables not used by a specification keep these values.                *)
(***************************************************************************)
CodecIdle ==
    [pc |-> "idle", preset |-> PresetDefault, buf |-> << >>, patched |-> FALSE,
     decoded |-> PresetDefault]

FramerIdle ==
    [pc |-> "idle", presets |-> << >>, raw_data |-> << >>, nibble_data |-> << >>,
     data |-> << >>, msg |-> << >>, tampered |-> FALSE, result |-> ResultNone,
     msg2 |-> << >>, result2 |-> ResultNone, msg3 |-> << >>]

\* from_sysex was not called by the handler
ResultNotCalled == [kind |-> "NotCalled", presets |-> << >>]

\* PicoEditApp::default(): nothing has run yet, both threads are alive
AppIdle ==
    [op |-> "new", result |-> ResultNotCalled,
     ui_alive |-> TRUE, midi_alive |-> TRUE]

AppInit ==
    /\ storage = <<PresetDefault>>
    /\ current_preset_index = 0
    /\ status_msg = <<"Ready">>
    /\ app = AppIdle

appVars == <<storage, current_preset_index, status_msg, app>>

(***************************************************************************)
(* SpecCodec: Preset::to_bytes and Preset::from_bytes applied to sample    *)
(* presets, and from_bytes applied to records whose enum fields hold       *)
(* arbitrary stored values (a record as a device may send it).             *)
(***************************************************************************)
\* offsets of the enum fields in a record: osc1/osc2/osc3 waveform, lfo waveform
OSC1_WAVEFORM_OFFSET == 32
LFO_WAVEFORM_OFFSET == 152

\* buf with the 4 bytes at offset replaced by the little-endian bytes of val
PatchU32(buf, offset, val) ==
    AsVec([i \in 1..Len(buf) |->
              IF i > offset /\ i <= offset + 4 THEN LeBytes(val)[i - offset] ELSE buf[i]])

CodecInit ==
    /\ codec \in { [CodecIdle EXCEPT !.pc = "start", !.preset = p] : p \in PresetSamples }
    /\ framer = FramerIdle
    /\ AppInit
    /\ EngineAbsent

CodecToBytes ==
    /\ codec.pc = "start"
    /\ codec' = [codec EXCEPT !.pc = "encoded", !.buf = to_bytes(codec.preset)]
    /\ UNCHANGED <<appVars, framer, engineVars, ioVars>>

\* a record whose waveform fields were written by something else than to_bytes
CodecStoreEnum ==
    /\ codec.pc = "encoded"
    /\ ~codec.patched
    /\ codec.preset = PresetDefault
    /\ \E v \in U32Samples, lv \in U32Samples :
          codec' = [codec EXCEPT !.pc = "encoded", !.patched = TRUE,
                       !.buf = PatchU32(PatchU32(codec.buf, OSC1_WAVEFORM_OFFSET, v),
                                        LFO_WAVEFORM_OFFSET, lv)]
    /\ UNCHANGED <<appVars, framer, engineVars, ioVars>>

CodecFromBytes ==
    /\ codec.pc = "encoded"
    /\ ~from_bytes_panics(codec.buf)
    /\ codec' = [codec EXCEPT !.pc = "decoded", !.decoded = from_bytes(codec.buf)]
    /\ UNCHANGED <<appVars, framer, engineVars, ioVars>>

CodecNext == CodecToBytes \/ CodecStoreEnum \/ CodecFromBytes

SpecCodec == CodecInit /\ [][CodecNext]_vars

(***************************************************************************)
(* Claims about the preset record codec, checked under SpecCodec.          *)
(***************************************************************************)
NameFits(name) == Len(name) <= NAME_SIZE

NulAtAnEnd(name) == Len(name) > 0 /\ (name[1] = 0 \/ name[Len(name)] = 0)

\* C1 as stated: for every preset whose name encodes to at most 32 bytes,
\* from_bytes(to_bytes(p)) equals p field for field (floats bit for bit).
C1_RoundTripAnyShortName ==
    (codec.pc = "decoded" /\ ~codec.patched /\ NameFits(codec.preset.name))
        => codec.decoded = codec.preset

\* C1 amended: the same for every preset whose name encodes to at most 32
\* bytes and neither begins nor ends with a NUL character.
C1_RoundTrip ==
    (codec.pc = "decoded" /\ ~codec.patched /\ NameFits(codec.preset.name)
        /\ ~NulAtAnEnd(codec.preset.name))
        => codec.decoded = codec.preset

\* a preset with a 32-byte name ending in a two-byte character, an inner
\* NUL elsewhere excluded, NaN floats and non-default enums has been encoded
\* and decoded
C1_Witness ==
    /\ codec.pc = "decoded"
    /\ ~codec.patched
    /\ codec.preset.name = Rep(65, NAME_SIZE - 2) \o EAcute
    /\ codec.preset.noise = [hi |-> 65535, lo |-> 65535]
    /\ codec.preset.osc3.waveform = "Noise"
    /\ codec.preset.reverb.enabled

\* C5: to_bytes returns exactly PRESET_SIZE = 200 bytes for every preset,
\* whatever the length of its name and the values of its fields.
C5_RecordSize == codec.pc \in {"encoded", "decoded"} => Len(codec.buf) = PRESET_SIZE

\* a preset whose name is longer than the name field has been encoded
C5_Witness ==
    /\ codec.pc = "encoded"
    /\ ~codec.patched
    /\ Len(codec.preset.name) > NAME_SIZE

\* the bytes at offset hold the stored value n (n < 256)
StoredIs(buf, offset, n) ==
    buf[offset + 1] = n /\ buf[offset + 2] = 0 /\ buf[offset + 3] = 0 /\ buf[offset + 4] = 0

WaveformTable(buf, offset) ==
    IF StoredIs(buf, offset, 0) THEN "Sine"
    ELSE IF StoredIs(buf, offset, 1) THEN "Triangle"
    ELSE IF StoredIs(buf, offset, 2) THEN "Saw"
    ELSE IF StoredIs(buf, offset, 3) THEN "Square"
    ELSE "Noise"

LfoWaveformTable(buf, offset) ==
    IF StoredIs(buf, offset, 0) THEN "Sine"
    ELSE IF StoredIs(buf, offset, 1) THEN "Triangle"
    ELSE IF StoredIs(buf, offset, 2) THEN "Saw"
    ELSE "Square"

\* C9: decoding a stored enum is total: 0,1,2,3 decode to Sine, Triangle,
\* Saw, Square and every other stored value to Noise (Waveform), 0,1,2 to
\* Sine, Triangle, Saw and every other value to Square (LfoWaveform); and
\* the value to_bytes writes for an enum member decodes to that member.
C9_EnumDecoding ==
    codec.pc = "decoded" =>
        /\ codec.decoded.osc1.waveform = WaveformTable(codec.buf, 32)
        /\ codec.decoded.osc2.waveform = WaveformTable(codec.buf, 52)
        /\ codec.decoded.osc3.waveform = WaveformTable(codec.buf, 72)
        /\ codec.decoded.lfo.waveform = LfoWaveformTable(codec.buf, 152)
        /\ ~codec.patched =>
              /\ codec.decoded.osc1.waveform = codec.preset.osc1.waveform
              /\ codec.decoded.osc2.waveform = codec.preset.osc2.waveform
              /\ codec.decoded.osc3.waveform = codec.preset.osc3.waveform
              /\ codec.decoded.lfo.waveform = codec.preset.lfo.waveform

\* a record storing 256 (low byte 0) as osc1's waveform and 0xFFFFFFFF as the
\* LFO waveform has been decoded, to the fallback variants
C9_Witness ==
    /\ codec.pc = "decoded"
    /\ codec.patched
    /\ SubSeq(codec.buf, 33, 36) = <<0, 1, 0, 0>>
    /\ SubSeq(codec.buf, 153, 156) = <<255, 255, 255, 255>>
    /\ codec.decoded.osc1.waveform = "Noise"
    /\ codec.decoded.lfo.waveform = "Square"

(***************************************************************************)
(* SpecFramer: Storage::to_sysex applied to sample banks, the frame        *)
(* delivered as it is or altered on the way (a device or a file may hold   *)
(* any bytes), Storage::from_sysex applied to what arrives, and the        *)
(* loaded bank saved, loaded and saved again.                              *)
(***************************************************************************)
BankSizes == {0, 1, 2, MaxBankSize - 1, MaxBankSize}

BankSamples ==
    { AsVec([i \in 1..n |-> PresetDefault]) : n \in BankSizes }
        \cup { << [PresetDefault EXCEPT !.name = n] >> : n \in NameSamples }
        \cup { << [PresetDefault EXCEPT !.name = PianoEmoji,
                                        !.noise = [hi |-> 63472, lo |-> 63472]] >> }
        \cup { << MkPreset(EAcute, [k \in FloatFields |-> U32Of(270544960 + k * 16843009)], e),
                  PresetDefault >> : e \in EnumPatterns }

\* 4096-byte images tried for the nibble expansion: constant, counting and
\* striding byte patterns (every byte value occurs)
ImageSamples ==
    { AsVec([i \in 1..STORAGE_SIZE |-> (a * i + b) % 256]) :
        a \in {0, 1, 17, 255}, b \in {0, 15, 240, 255} }

\* msg with the byte at 0-based index pos replaced by val
SetByte(msg, pos, val) ==
    AsVec([i \in 1..Len(msg) |-> IF i = pos + 1 THEN val ELSE msg[i]])

\* msg with its payload cut or zero-extended to len bytes
ResizePayload(msg, len) ==
    SubSeq(msg, 1, 4) \o AsVec([i \in 1..len |-> IF i <= Len(msg) - 5 THEN msg[i + 4] ELSE 0])
        \o <<msg[Len(msg)]>>

\* msg with the image bytes from 0-based offset off on replaced by bytes
\* (nibble-expanded in place)
PatchImage(msg, off, bytes) ==
    LET nibbles == Nibbleize(bytes)
    IN  AsVec([i \in 1..Len(msg) |->
                  IF i > 4 + 2 * off /\ i <= 4 + 2 * (off + Len(bytes))
                  THEN nibbles[i - 4 - 2 * off]
                  ELSE msg[i]])

\* msg with the high 4 bits of payload byte i (counted from 1) set to
\* (first + step * i) mod 16; the low 4 bits stay
SetHighBits(msg, first, step) ==
    AsVec([i \in 1..Len(msg) |->
              IF i > 4 /\ i < Len(msg)
              THEN ((first + step * (i - 4)) % 16) * 16 + (msg[i] % 16)
              ELSE msg[i]])

\* a name field that is not well-formed UTF-8: a lone lead byte, 28 letters, "é", NUL
IllFormedNameField == <<195>> \o Rep(65, NAME_SIZE - 4) \o EAcute \o <<0>>

Tampers ==
    { [kind |-> "byte", pos |-> t[1], val |-> t[2]] :
        t \in { <<0, 0>>, <<0, 247>>, <<1, 126>>, <<2, 2>>, <<3, 1>>, <<3, 3>>, <<3, 4>>,
                <<4, 21>>, <<5, 240>> } }
    \cup { [kind |-> "end", val |-> v] : v \in {0, 240} }
    \cup { [kind |-> "image", off |-> 0, bytes |-> <<81>>],
           [kind |-> "image", off |-> 4, bytes |-> LeBytes(U32Of(6))],
           [kind |-> "image", off |-> 16, bytes |-> IllFormedNameField] }
    \cup { [kind |-> "image", off |-> 8, bytes |-> LeBytes(n)] :
             n \in { U32Of(0), U32Of(2), U32Of(MaxBankSize - 1), U32Of(MaxBankSize),
                     U32Of(65536), [hi |-> 65535, lo |-> 65535] } }
    \cup { [kind |-> "resize", len |-> n] :
             n \in {0, 2 * STORAGE_SIZE - 2, 2 * STORAGE_SIZE - 1, 2 * STORAGE_SIZE + 1,
                    2 * STORAGE_SIZE + 2} }
    \cup { [kind |-> "high bits", first |-> 15, step |-> 0],
           [kind |-> "high bits", first |-> 1, step |-> 3] }
    \cup { [kind |-> "whole", frame |-> f] :
             f \in { << >>, <<240>>, <<240, 247>>, <<240, 125, 1, 2>>,
                     <<240, 125, 1, 2, 247>>, <<240, 125, 1, 1, 247>> } }

Tamper(msg, t) ==
    CASE t.kind = "byte" -> SetByte(msg, t.pos, t.val)
      [] t.kind = "end" -> SetByte(msg, Len(msg) - 1, t.val)
      [] t.kind = "image" -> PatchImage(msg, t.off, t.bytes)
      [] t.kind = "resize" -> ResizePayload(msg, t.len)
      [] t.kind = "high bits" -> SetHighBits(msg, t.first, t.step)
      [] t.kind = "whole" -> t.frame

FramerInit ==
    /\ framer \in { [FramerIdle EXCEPT !.pc = "start", !.presets = b] : b \in BankSamples }
    /\ codec = CodecIdle
    /\ AppInit
    /\ EngineAbsent

\* Storage::to_sysex on the bank; raw_data is the local as the nibble loop finds it
FramerToSysex ==
    /\ framer.pc = "start"
    /\ framer' = [framer EXCEPT !.pc = "encoded",
                                !.raw_data = StorageImage(framer.presets),
                                !.msg = to_sysex(framer.presets)]
    /\ UNCHANGED <<appVars, codec, engineVars, ioVars>>

\* the nibble loop of to_sysex and the de-nibble loop of from_sysex on an image
FramerNibbleRoundTrip ==
    /\ framer.pc = "start"
    /\ framer.presets = << >>
    /\ \E image \in ImageSamples :
          framer' = [framer EXCEPT !.pc = "nibbled",
                                   !.raw_data = image,
                                   !.nibble_data = Nibbleize(image),
                                   !.data = Denibbleize(Nibbleize(image))]
    /\ UNCHANGED <<appVars, codec, engineVars, ioVars>>

\* the frame is altered before it is read back
FramerTamper ==
    /\ framer.pc = "encoded"
    /\ ~framer.tampered
    /\ \E t \in Tampers :
          framer' = [framer EXCEPT !.tampered = TRUE, !.msg = Tamper(framer.msg, t)]
    /\ UNCHANGED <<appVars, codec, engineVars, ioVars>>

\* Storage::from_sysex on the frame
FramerFromSysex ==
    /\ framer.pc = "encoded"
    /\ framer' = [framer EXCEPT !.pc = "decoded", !.result = from_sysex(framer.msg)]
    /\ UNCHANGED <<appVars, codec, engineVars, ioVars>>

\* the loaded bank is saved: Storage::to_sysex on what from_sysex returned
FramerSaveLoaded ==
    /\ framer.pc = "decoded"
    /\ framer.result.kind = "Some"
    /\ framer' = [framer EXCEPT !.pc = "saved", !.msg2 = to_sysex(framer.result.presets)]
    /\ UNCHANGED <<appVars, codec, engineVars, ioVars>>

\* the saved frame is loaded again
FramerLoadSaved ==
    /\ framer.pc = "saved"
    /\ framer' = [framer EXCEPT !.pc = "reloaded", !.result2 = from_sysex(framer.msg2)]
    /\ UNCHANGED <<appVars, codec, engineVars, ioVars>>

\* and saved again
FramerSaveReloaded ==
    /\ framer.pc = "reloaded"
    /\ framer.result2.kind = "Some"
    /\ framer' = [framer EXCEPT !.pc = "resaved", !.msg3 = to_sysex(framer.result2.presets)]
    /\ UNCHANGED <<appVars, codec, engineVars, ioVars>>

FramerNext ==
    \/ FramerToSysex
    \/ FramerNibbleRoundTrip
    \/ FramerTamper
    \/ FramerFromSysex
    \/ FramerSaveLoaded
    \/ FramerLoadSaved
    \/ FramerSaveReloaded

SpecFramer == FramerInit /\ [][FramerNext]_vars

(***************************************************************************)
(* Claims about the storage framer, checked under SpecFramer.              *)
(***************************************************************************)
\* C2: for every byte sequence of length 4096, splitting each byte into
\* (high nibble, low nibble) as to_sysex does and recombining each pair as
\* from_sysex does yields the original 4096 bytes.
C2_NibbleRoundTrip ==
    framer.pc = "nibbled" =>
        /\ Len(framer.raw_data) = 4096
        /\ Len(framer.nibble_data) = 8192
        /\ framer.data = framer.raw_data

\* an image starting 0x10, 0x21 has been split into 1,0,2,1 and recombined
C2_Witness ==
    /\ framer.pc = "nibbled"
    /\ SubSeq(framer.raw_data, 1, 2) = <<16, 33>>
    /\ SubSeq(framer.nibble_data, 1, 4) = <<1, 0, 2, 1>>
    /\ SubSeq(framer.data, 1, 2) = <<16, 33>>

\* the frames C3 is about
C3_Malformed(msg) ==
    \/ Len(msg) < 1 \/ msg[1] # 240
    \/ msg[Len(msg)] # 247
    \/ Len(msg) < 2 \/ msg[2] # 125
    \/ Len(msg) < 3 \/ msg[3] # 1
    \/ Len(msg) < 4 \/ msg[4] # 2
    \/ Len(msg) - 5 # 8192

\* C3: from_sysex returns None, and constructs no preset, for every frame
\* whose first byte is not 0xF0, whose last byte is not 0xF7, whose vendor
\* byte is not 0x7D, whose device byte is not 0x01, whose command byte is not
\* 0x02, or whose payload is not exactly 8192 bytes long.
C3_FrameRejection ==
    (framer.pc = "decoded" /\ C3_Malformed(framer.msg))
        => (framer.result.kind = "None" /\ framer.result.presets = << >>)

\* a frame that is right in every byte but carries one payload byte too many
\* has been refused
C3_Witness ==
    /\ framer.pc = "decoded"
    /\ Len(framer.msg) = 8198
    /\ SubSeq(framer.msg, 1, 4) = <<240, 125, 1, 2>>
    /\ framer.msg[8198] = 247
    /\ SubSeq(framer.msg, 5, 12) = <<5, 0, 5, 3, 4, 4, 5, 0>>
    /\ framer.result.kind = "None"

AllNamesFit(presets) == \A k \in 1..Len(presets) : NameFits(presets[k].name)

\* C4 as stated: for every bank b obtained by loading a frame, the frame
\* f = to_sysex(b) is reproduced byte for byte by loading it and saving
\* again: to_sysex(from_sysex(f)) = f.
C4_SaveReproducesFrameAnyBank ==
    /\ framer.pc \in {"reloaded", "resaved"} => framer.result2.kind = "Some"
    /\ framer.pc = "resaved" => framer.msg3 = framer.msg2

\* C4 amended: the same for every bank obtained by loading a frame whose
\* preset names all encode to at most 32 bytes; loading f then also returns b.
C4_SaveReproducesFrame ==
    (framer.pc \in {"reloaded", "resaved"} /\ AllNamesFit(framer.result.presets)) =>
        /\ framer.result2 = ResultSome(framer.result.presets)
        /\ framer.pc = "resaved" => framer.msg3 = framer.msg2

\* the 1-preset bank holding the default "Init Patch" preset has been loaded,
\* saved, loaded and saved again
C4_Witness ==
    /\ framer.pc = "resaved"
    /\ framer.result.presets = <<PresetDefault>>
    /\ Len(framer.msg2) = 8197
    /\ framer.msg3 = framer.msg2

\* C6: for every bank, whatever its number of presets, to_sysex produces a
\* frame [0xF0, 0x7D, 0x01, 0x02, exactly 8192 payload bytes, 0xF7]: the
\* image is exactly 4096 bytes before the nibble expansion (so the length
\* check of from_sysex accepts the frame).
C6_FixedFrameShape ==
    (framer.pc = "encoded" /\ ~framer.tampered) =>
        /\ Len(framer.raw_data) = 4096
        /\ Len(framer.msg) = 4 + 8192 + 1
        /\ SubSeq(framer.msg, 1, 4) = <<240, 125, 1, 2>>
        /\ framer.msg[Len(framer.msg)] = 247

PayloadInNibbleRange(msg) == \A i \in 5..(Len(msg) - 1) : msg[i] >= 0 /\ msg[i] <= 15

\* C7: in every frame produced by to_sysex, every byte strictly between the
\* 4-byte prefix and the trailing 0xF7 lies in 0x00..0x0F.
C7_PayloadNibbles ==
    /\ (framer.pc = "encoded" /\ ~framer.tampered) => PayloadInNibbleRange(framer.msg)
    /\ PayloadInNibbleRange(framer.msg2)
    /\ PayloadInNibbleRange(framer.msg3)

\* a bank whose image holds the bytes 0xF0 and 0xF7 has been framed
C7_Witness ==
    /\ framer.pc = "encoded"
    /\ ~framer.tampered
    /\ \E i \in 1..Len(framer.raw_data) : framer.raw_data[i] = 240
    /\ \E i \in 1..Len(framer.raw_data) : framer.raw_data[i] = 247

\* image byte k (0-based) as the payload of msg holds it
ImageByte(msg, k) == (msg[5 + 2 * k] % 16) * 16 + (msg[6 + 2 * k] % 16)

\* msg passes the marker, ID, command, length and magic checks and its
\* preset_count is more than 20
C8_CountBeyondImage(msg) ==
    /\ ~C3_Malformed(msg)
    /\ <<ImageByte(msg, 0), ImageByte(msg, 1), ImageByte(msg, 2), ImageByte(msg, 3)>>
          = <<80, 83, 68, 80>>
    /\ \/ ImageByte(msg, 8) > 20
       \/ ImageByte(msg, 9) # 0 \/ ImageByte(msg, 10) # 0 \/ ImageByte(msg, 11) # 0

\* C8: from_sysex terminates normally on every input, with a bank or with
\* None; a frame that passes the checks but carries a preset_count of more
\* than 20 yields None.
C8_DecodeNeverAborts ==
    /\ framer.pc = "decoded" =>
          /\ framer.result.kind \in {"None", "Some"}
          /\ C8_CountBeyondImage(framer.msg) => framer.result.kind = "None"
    /\ framer.pc = "reloaded" => framer.result2.kind \in {"None", "Some"}

\* msg with every payload byte reduced to its low 4 bits
LowBitsOfPayload(msg) ==
    AsVec([i \in 1..Len(msg) |-> IF i > 4 /\ i < Len(msg) THEN msg[i] % 16 ELSE msg[i]])

\* C30: from_sysex does not validate the nibble range: its result depends only
\* on the low 4 bits of each payload byte, so a frame with payload bytes above
\* 0x0F is not rejected for them, and two frames that differ only in the high
\* 4 bits of payload bytes decode to the same bank.
C30_OnlyLowBitsDecoded ==
    framer.pc = "decoded" => framer.result = from_sysex(LowBitsOfPayload(framer.msg))

\* the frame of a two-preset bank whose payload bytes all had their high
\* bits set (0xF0..0xFF) has been decoded to that bank
C30_Witness ==
    /\ framer.pc = "decoded"
    /\ Len(framer.msg) = 8197
    /\ \A i \in 5..8196 : framer.msg[i] >= 240
    /\ framer.msg[5] = 245
    /\ Len(framer.presets) = 2
    /\ framer.result = ResultSome(framer.presets)

(***************************************************************************)
(* Spec: the editor's shared bank.  The UI thread runs the preset editor   *)
(* (ui.rs draw_preset_editor) and load_from_file; the MIDI input thread    *)
(* runs process_sysex on every reassembled frame.  `app` records the last  *)
(* handler run, what from_sysex returned to it, and which threads live.    *)
(* A status message is the tuple of its format string and its arguments.   *)
(***************************************************************************)
\* largest bank the editor actions build
MaxAppBank == 2

\* " Copy"
CopySuffix == <<32, 67, 111, 112, 121>>

\* a preset as a device may hold it: named "A", delay enabled, LFO on
DevicePreset ==
    [PresetDefault EXCEPT !.name = <<65>>, !.delay.enabled = TRUE, !.lfo_enabled = TRUE,
                          !.lfo.waveform = "Square"]

\* complete frames the MIDI input thread may reassemble (first byte 0xF0, last 0xF7)
MidiFrameNames ==
    { "dump of one preset", "dump with a wrong magic", "dump counting 21", "short dump",
      "write success", "write error 5", "dump request", "other manufacturer",
      "empty frame" }

MidiFrame(name) ==
    CASE name = "dump of one preset" -> to_sysex(<<DevicePreset>>)
      [] name = "dump with a wrong magic" -> PatchImage(to_sysex(<<PresetDefault>>), 0, <<81>>)
      [] name = "dump counting 21" ->
            PatchImage(to_sysex(<<PresetDefault>>), 8, LeBytes(U32Of(21)))
      [] name = "short dump" -> <<240, 125, 1, 2, 5, 0, 4, 4, 247>>
      [] name = "write success" -> <<240, 125, 1, 3, 247>>
      [] name = "write error 5" -> <<240, 125, 1, 4, 5, 247>>
      [] name = "dump request" -> <<240, 125, 1, 1, 247>>
      [] name = "other manufacturer" -> <<240, 126, 1, 2, 247>>
      [] name = "empty frame" -> <<240, 247>>

\* contents of the files the user may pick
FileNames ==
    { "bank of two presets", "bank of no preset", "cut file",
      "bank marked as a dump request", "empty file" }

FileContent(name) ==
    CASE name = "bank of two presets" -> to_sysex(<<PresetDefault, DevicePreset>>)
      [] name = "bank of no preset" -> to_sysex(<< >>)
      [] name = "cut file" -> <<240, 125, 1, 2, 5, 0, 4, 4>>
      [] name = "bank marked as a dump request" -> <<240, 125, 1, 1, 5, 0, 4, 4, 247>>
      [] name = "empty file" -> << >>

\* a variant of BankAfterLoad that keeps the old presets in front of the new ones
BankAfterLoadMerged(old, result) ==
    IF result.kind = "Some" THEN old \o result.presets ELSE old

\* the bank after `match Storage::from_sysex(..)`: assigned only in the Some arm
BankAfterLoad(old, result) ==
    IF result.kind = "Some" THEN result.presets ELSE old

\* process_sysex (main.rs:289-323) on the reassembled frame `buffer`
ProcessSysexOn(buffer) ==
    IF Len(buffer) >= 5 /\ buffer[2] = MANUFACTURER_ID /\ buffer[3] = MODEL_ID
    THEN CASE buffer[4] = CMD_WRITE_REQ ->
                \E result \in {from_sysex(buffer)} :
                    /\ storage' = BankAfterLoad(storage, result)
                    /\ status_msg' =
                          CASE result.kind = "Some" ->
                                  <<"Loaded {} presets!", Len(result.presets)>>
                            [] result.kind = "None" -> <<"Failed to parse Dump!">>
                            [] OTHER -> status_msg
                    /\ app' = [app EXCEPT !.op = "process_sysex",
                                          !.result = result,
                                          !.midi_alive = result.kind # "Panic"]
           [] buffer[4] = CMD_WRITE_SUCCESS ->
                /\ status_msg' = <<"Save Successful!">>
                /\ app' = [app EXCEPT !.op = "process_sysex",
                                      !.result = ResultNotCalled]
                /\ UNCHANGED storage
           [] buffer[4] = CMD_WRITE_ERROR ->
                /\ status_msg' = <<"Save Failed! Error Code: {}",
                                    IF Len(buffer) > 4 THEN buffer[5] ELSE 0>>
                /\ app' = [app EXCEPT !.op = "process_sysex",
                                      !.result = ResultNotCalled]
                /\ UNCHANGED storage
           [] OTHER ->
                /\ app' = [app EXCEPT !.op = "process_sysex",
                                      !.result = ResultNotCalled]
                /\ UNCHANGED <<storage, status_msg>>
    ELSE /\ app' = [app EXCEPT !.op = "process_sysex",
                               !.result = ResultNotCalled]
         /\ UNCHANGED <<storage, status_msg>>

\* process_sysex on a frame the MIDI input thread has reassembled
ProcessSysex ==
    /\ app.ui_alive /\ app.midi_alive
    /\ \E frame \in MidiFrameNames : \E buffer \in {MidiFrame(frame)} :
          ProcessSysexOn(buffer)
    /\ UNCHANGED <<current_preset_index, codec, framer, engineVars, ioVars>>

\* load_from_file (main.rs:399-416): a file was picked and read
LoadFromFile ==
    /\ app.ui_alive
    /\ \E file \in FileNames : \E result \in {from_sysex(FileContent(file))} :
              /\ storage' = BankAfterLoad(storage, result)
              /\ status_msg' =
                    CASE result.kind = "Some" -> <<"Loaded from {}">>
                      [] result.kind = "None" -> <<"Failed to parse SysEx file">>
                      [] OTHER -> status_msg
              /\ current_preset_index' =
                    IF result.kind = "Some" THEN 0 ELSE current_preset_index
              /\ app' = [app EXCEPT !.op = "load_from_file",
                                    !.result = result,
                                    !.ui_alive = result.kind # "Panic"]
    /\ UNCHANGED <<codec, framer, engineVars, ioVars>>

\* load_from_file: the picked file could not be read
LoadFromFileUnreadable ==
    /\ app.ui_alive
    /\ status_msg' = <<"Failed to read file">>
    /\ app' = [app EXCEPT !.op = "load_from_file",
                          !.result = ResultNotCalled]
    /\ UNCHANGED <<storage, current_preset_index, codec, framer, engineVars, ioVars>>

\* draw_preset_editor gets past its early return and its first
\* storage.presets[*current_preset_index]
EditorDrawn ==
    /\ app.ui_alive
    /\ Len(storage) > 0
    /\ current_preset_index < Len(storage)

EditorStep == [app EXCEPT !.op = "draw_preset_editor", !.result = ResultNotCalled]

\* draw_preset_editor: storage.presets[*current_preset_index] is out of range
EditorIndexPanic ==
    /\ app.ui_alive
    /\ Len(storage) > 0
    /\ current_preset_index >= Len(storage)
    /\ app' = [EditorStep EXCEPT !.ui_alive = FALSE]
    /\ UNCHANGED <<storage, current_preset_index, status_msg, codec, framer, engineVars, ioVars>>

\* the "<" button: it is handled before the selector reads
\* storage.presets[*current_preset_index]
EditorPrev ==
    /\ app.ui_alive
    /\ Len(storage) > 0
    /\ current_preset_index > 0
    /\ current_preset_index' = current_preset_index - 1
    /\ app' = [EditorStep EXCEPT !.ui_alive = current_preset_index' < Len(storage)]
    /\ UNCHANGED <<storage, status_msg, codec, framer, engineVars, ioVars>>

\* the ">" button
EditorNext ==
    /\ EditorDrawn
    /\ current_preset_index < Len(storage) - 1
    /\ current_preset_index' = current_preset_index + 1
    /\ app' = EditorStep
    /\ UNCHANGED <<storage, status_msg, codec, framer, engineVars, ioVars>>

\* an entry of the preset selector
EditorSelect ==
    /\ EditorDrawn
    /\ \E i \in 0..(Len(storage) - 1) : current_preset_index' = i
    /\ app' = EditorStep
    /\ UNCHANGED <<storage, status_msg, codec, framer, engineVars, ioVars>>

\* the "Add New" button
EditorAddNew ==
    /\ EditorDrawn
    /\ Len(storage) < MaxAppBank
    /\ storage' = Append(storage, PresetDefault)
    /\ current_preset_index' = Len(storage')  - 1
    /\ app' = EditorStep
    /\ UNCHANGED <<status_msg, codec, framer, engineVars, ioVars>>

\* String::truncate(32) panics when byte 32 is not on a character boundary
TruncatePanics(name) == Len(name) > NAME_SIZE /\ IsContinuation(name[NAME_SIZE + 1])

\* the name of a clone: "{} Copy", cut to 32 bytes when longer
CloneName(name) ==
    LET copy == name \o CopySuffix
    IN  IF Len(copy) > NAME_SIZE THEN SubSeq(copy, 1, NAME_SIZE) ELSE copy

\* the "Clone" button
EditorClone ==
    /\ EditorDrawn
    /\ Len(storage) < MaxAppBank
    /\ LET preset == storage[current_preset_index + 1]
       IN  IF TruncatePanics(preset.name \o CopySuffix)
           THEN /\ app' = [EditorStep EXCEPT !.ui_alive = FALSE]
                /\ UNCHANGED <<storage, current_preset_index>>
           ELSE /\ storage' = Append(storage, [preset EXCEPT !.name = CloneName(preset.name)])
                /\ current_preset_index' = Len(storage') - 1
                /\ app' = EditorStep
    /\ UNCHANGED <<status_msg, codec, framer, engineVars, ioVars>>

Next ==
    \/ ProcessSysex
    \/ LoadFromFile
    \/ LoadFromFileUnreadable
    \/ EditorIndexPanic
    \/ EditorPrev
    \/ EditorNext
    \/ EditorSelect
    \/ EditorAddNew
    \/ EditorClone

Init ==
    /\ AppInit
    /\ codec = CodecIdle
    /\ framer = FramerIdle
    /\ EngineAbsent

Spec == Init /\ [][Next]_vars

(***************************************************************************)
(* Claims about the shared bank, checked under Spec.                       *)
(***************************************************************************)
\* the step is a run of one of the two handlers that decode a bank
LoadStep == app'.op \in {"process_sysex", "load_from_file"}

\* C10: the shared bank is replaced only as a whole and only by a successfully
\* decoded bank.  In every run of process_sysex or load_from_file in which
\* from_sysex returns no result, the bank and the selected index stay exactly as
\* they were; in every run in which it returns a bank, the shared bank afterwards
\* is that decoded bank, with no preset of the previous bank left in it.
C10_WholesaleReplacement ==
    [][ LoadStep =>
          /\ app'.result.kind = "None" =>
                /\ storage' = storage
                /\ current_preset_index' = current_preset_index
          /\ app'.result.kind = "Some" => storage' = app'.result.presets
          /\ storage' # storage => app'.result.kind = "Some" ]_vars

\* a failed file load has left a two-preset bank that an earlier load put there,
\* and the selection on its second preset
C10_Witness ==
    /\ app.op = "load_from_file"
    /\ app.result.kind = "None"
    /\ status_msg = <<"Failed to parse SysEx file">>
    /\ storage = <<PresetDefault, DevicePreset>>
    /\ current_preset_index = 1

\* C26: after any interleaving of the editor's actions and file loads on the
\* UI thread with device-dump loads by the MIDI input thread, whenever the bank
\* is non-empty the selected index is below the number of presets, so every
\* storage.presets[current_preset_index] is in bounds.
C26_SelectedIndexInBounds ==
    Len(storage) > 0 => current_preset_index < Len(storage)

(***************************************************************************)
(* LiveParams (audio.rs:145-264): thirty Parameter cells written by the    *)
(* control context and read by the running voice graph, and the            *)
(* fingerprint of the structural fields of the preset last applied.        *)
(***************************************************************************)
\* bit pattern of 0.5
F32_0_5 == U32Of(1056964608)

\* `waveform as u64`: the discriminants of enum Waveform
WaveformAsU64(w) ==
    CASE w = "Sine" -> 0
      [] w = "Triangle" -> 1
      [] w = "Saw" -> 2
      [] w = "Square" -> 3
      [] w = "Noise" -> 4

\* `waveform as u64`: the discriminants of enum LfoWaveform
LfoWaveformAsU64(w) ==
    CASE w = "Sine" -> 0
      [] w = "Triangle" -> 1
      [] w = "Saw" -> 2
      [] w = "Square" -> 3

\* `if flag { 1 } else { 0 }`
FlagAsU64(flag) == IF flag THEN 1 ELSE 0

\* `n << k` on values that stay far below 2^64
Shl(n, k) == n * 2 ^ k

\* LiveParams::new: the cells' initial values and a zero fingerprint
LiveParams_new ==
    [osc1_level |-> F32_1, osc1_octave |-> F32_0, osc1_detune |-> F32_0,
     osc2_level |-> F32_0, osc2_octave |-> F32_0, osc2_detune |-> F32_0,
     osc3_level |-> F32_0, osc3_octave |-> F32_0, osc3_detune |-> F32_0,
     noise_level |-> F32_0,
     cutoff |-> F32_20000, resonance |-> F32_0, filter_env_amt |-> F32_0,
     filter_attack |-> F32_0, filter_decay |-> F32_0, filter_sustain |-> F32_1,
     filter_release |-> F32_0,
     amp_attack |-> F32_0_01, amp_decay |-> F32_0_1, amp_sustain |-> F32_1,
     amp_release |-> F32_0_1,
     delay_time |-> F32_0_5, delay_feedback |-> F32_0, delay_mix |-> F32_0,
     reverb_size |-> F32_0_5, reverb_damping |-> F32_0_5, reverb_mix |-> F32_0,
     lfo_freq |-> F32_1, lfo_vib_amt |-> F32_0, lfo_filt_amt |-> F32_0,
     last_struct_hash |-> 0]

\* a variant of LiveCellsSet that crosses the two delay cells
LiveCellsSetDelayCrossed(self, p) ==
    [self EXCEPT
        !.osc1_level = p.osc1.level, !.osc1_octave = p.osc1.octave,
        !.osc1_detune = p.osc1.detune,
        !.osc2_level = p.osc2.level, !.osc2_octave = p.osc2.octave,
        !.osc2_detune = p.osc2.detune,
        !.osc3_level = p.osc3.level, !.osc3_octave = p.osc3.octave,
        !.osc3_detune = p.osc3.detune,
        !.noise_level = p.noise,
        !.cutoff = p.filter.cutoff, !.resonance = p.filter.resonance,
        !.filter_env_amt = p.filter.env_amt, !.filter_attack = p.filter.attack,
        !.filter_decay = p.filter.decay, !.filter_sustain = p.filter.sustain,
        !.filter_release = p.filter.release,
        !.amp_attack = p.amp.attack, !.amp_decay = p.amp.decay,
        !.amp_sustain = p.amp.sustain, !.amp_release = p.amp.release,
        !.delay_time = p.delay.time, !.delay_feedback = p.delay.mix,
        !.delay_mix = p.delay.feedback,
        !.reverb_size = p.reverb.size, !.reverb_damping = p.reverb.damping,
        !.reverb_mix = p.reverb.mix,
        !.lfo_freq = p.lfo.freq, !.lfo_vib_amt = p.lfo.vib_amt,
        !.lfo_filt_amt = p.lfo.filt_amt]

\* the thirty `set` calls of LiveParams::update
LiveCellsSet(self, p) ==
    [self EXCEPT
        !.osc1_level = p.osc1.level, !.osc1_octave = p.osc1.octave,
        !.osc1_detune = p.osc1.detune,
        !.osc2_level = p.osc2.level, !.osc2_octave = p.osc2.octave,
        !.osc2_detune = p.osc2.detune,
        !.osc3_level = p.osc3.level, !.osc3_octave = p.osc3.octave,
        !.osc3_detune = p.osc3.detune,
        !.noise_level = p.noise,
        !.cutoff = p.filter.cutoff, !.resonance = p.filter.resonance,
        !.filter_env_amt = p.filter.env_amt, !.filter_attack = p.filter.attack,
        !.filter_decay = p.filter.decay, !.filter_sustain = p.filter.sustain,
        !.filter_release = p.filter.release,
        !.amp_attack = p.amp.attack, !.amp_decay = p.amp.decay,
        !.amp_sustain = p.amp.sustain, !.amp_release = p.amp.release,
        !.delay_time = p.delay.time, !.delay_feedback = p.delay.feedback,
        !.delay_mix = p.delay.mix,
        !.reverb_size = p.reverb.size, !.reverb_damping = p.reverb.damping,
        !.reverb_mix = p.reverb.mix,
        !.lfo_freq = p.lfo.freq, !.lfo_vib_amt = p.lfo.vib_amt,
        !.lfo_filt_amt = p.lfo.filt_amt]

\* a variant of StructHash that also folds in whether oscillator 2 is audible
StructHashWithOsc2Level(p) ==
    WaveformAsU64(p.osc1.waveform)
        + Shl(WaveformAsU64(p.osc2.waveform), 4)
        + Shl(WaveformAsU64(p.osc3.waveform), 8)
        + Shl(FlagAsU64(p.osc1.vibrato), 12)
        + Shl(FlagAsU64(p.osc2.vibrato), 13)
        + Shl(FlagAsU64(p.osc3.vibrato), 14)
        + Shl(FlagAsU64(p.lfo_enabled), 15)
        + Shl(LfoWaveformAsU64(p.lfo.waveform), 16)
        + Shl(FlagAsU64(p.delay.enabled), 20)
        + Shl(FlagAsU64(p.reverb.enabled), 21)
        + Shl(FlagAsU64(p.osc2.level # F32_0), 22)

\* a variant of StructHash that packs the waveform of oscillator 2 two bits up
StructHashNarrowOsc2(p) ==
    WaveformAsU64(p.osc1.waveform)
        + Shl(WaveformAsU64(p.osc2.waveform), 2)
        + Shl(WaveformAsU64(p.osc3.waveform), 8)
        + Shl(FlagAsU64(p.osc1.vibrato), 12)
        + Shl(FlagAsU64(p.osc2.vibrato), 13)
        + Shl(FlagAsU64(p.osc3.vibrato), 14)
        + Shl(FlagAsU64(p.lfo_enabled), 15)
        + Shl(LfoWaveformAsU64(p.lfo.waveform), 16)
        + Shl(FlagAsU64(p.delay.enabled), 20)
        + Shl(FlagAsU64(p.reverb.enabled), 21)

\* the fingerprint LiveParams::update computes: ten wrapping_add of shifted
\* fields; the sum stays below 2^22, so the u64 never wraps
StructHash(p) ==
    WaveformAsU64(p.osc1.waveform)
        + Shl(WaveformAsU64(p.osc2.waveform), 4)
        + Shl(WaveformAsU64(p.osc3.waveform), 8)
        + Shl(FlagAsU64(p.osc1.vibrato), 12)
        + Shl(FlagAsU64(p.osc2.vibrato), 13)
        + Shl(FlagAsU64(p.osc3.vibrato), 14)
        + Shl(FlagAsU64(p.lfo_enabled), 15)
        + Shl(LfoWaveformAsU64(p.lfo.waveform), 16)
        + Shl(FlagAsU64(p.delay.enabled), 20)
        + Shl(FlagAsU64(p.reverb.enabled), 21)

\* LiveParams::update: the cells and fingerprint afterwards, and the value returned
LiveParams_update(self, p) ==
    LET hash == StructHash(p)
    IN  [self |-> [LiveCellsSet(self, p) EXCEPT !.last_struct_hash = hash],
         changed |-> hash # self.last_struct_hash]

(***************************************************************************)
(* LiveParams::update applied to a run of presets: SpecParams.             *)
(***************************************************************************)
\* number of update calls after the one AudioManager::new makes
MaxUpdates == 2

\* a preset with every f32 field taken from f and every enum and flag from e
PresetOf(f, e) == MkPreset(InitPatchName, f, e)

\* the f32 fields of a preset, in the order of FloatFields
FloatsOf(p) ==
    <<p.osc1.level, p.osc1.octave, p.osc1.detune,
      p.osc2.level, p.osc2.octave, p.osc2.detune,
      p.osc3.level, p.osc3.octave, p.osc3.detune,
      p.noise, p.portamento,
      p.filter.cutoff, p.filter.resonance, p.filter.env_amt, p.filter.attack,
      p.filter.decay, p.filter.sustain, p.filter.release,
      p.amp.attack, p.amp.decay, p.amp.sustain, p.amp.release,
      p.lfo.freq, p.lfo.vib_amt, p.lfo.filt_amt,
      p.delay.time, p.delay.feedback, p.delay.mix,
      p.reverb.size, p.reverb.damping, p.reverb.mix>>

\* the enum and flag fields of a preset
EnumsOf(p) ==
    [w |-> <<p.osc1.waveform, p.osc2.waveform, p.osc3.waveform>>,
     lw |-> p.lfo.waveform,
     vib |-> <<p.osc1.vibrato, p.osc2.vibrato, p.osc3.vibrato>>,
     lfo |-> p.lfo_enabled, delay |-> p.delay.enabled, reverb |-> p.reverb.enabled]

\* the presets one edit of a single enum or flag field away from p
StructuralEdits(p) ==
    LET f == FloatsOf(p)
        e == EnumsOf(p)
    IN  { PresetOf(f, [e EXCEPT !.w[n] = w]) : n \in 1..3, w \in Waveforms }
        \cup { PresetOf(f, [e EXCEPT !.vib[n] = ~e.vib[n]]) : n \in 1..3 }
        \cup { PresetOf(f, [e EXCEPT !.lw = w]) : w \in LfoWaveforms }
        \cup { PresetOf(f, [e EXCEPT !.lfo = ~e.lfo]),
               PresetOf(f, [e EXCEPT !.delay = ~e.delay]),
               PresetOf(f, [e EXCEPT !.reverb = ~e.reverb]) }

\* the presets that differ from p in f32 fields only: one slider moved, or all
ContinuousEdits(p) ==
    LET f == FloatsOf(p)
        e == EnumsOf(p)
    IN  { PresetOf([f EXCEPT ![k] = F32_0_5], e) : k \in FloatFields }
        \cup { PresetOf(g, e) : g \in FloatPatterns }

\* the presets of a bank to switch to
SelectablePresets ==
    { PresetOf(FloatsOf(PresetDefault), e) : e \in EnumPatterns }

ParamsIdle ==
    [pc |-> "LiveParams", self |-> LiveParams_update(LiveParams_new, PresetDefault).self,
     before |-> LiveParams_new, prev |-> PresetDefault, p |-> PresetDefault,
     changed |-> FALSE, op |-> "new", calls |-> 0]

\* AudioManager::new (audio.rs:347-356): the cells after update(&Preset::default())
ParamsInit ==
    /\ live = ParamsIdle
    /\ audio = EngineNone
    /\ glide = EngineNone
    /\ lfo = EngineNone
    /\ IoIdle
    /\ codec = CodecIdle
    /\ framer = FramerIdle
    /\ AppInit

\* one call of update with preset p
ParamsCall(p, op) ==
    /\ live.calls < MaxUpdates
    /\ \E r \in {LiveParams_update(live.self, p)} :
          live' = [live EXCEPT !.self = r.self, !.before = live.self, !.prev = live.p,
                               !.p = p, !.changed = r.changed, !.op = op,
                               !.calls = live.calls + 1]
    /\ UNCHANGED <<appVars, codec, framer, audio, glide, lfo, ioVars>>

ParamsUpdateSame == ParamsCall(live.p, "same")

ParamsUpdateContinuous == \E p \in ContinuousEdits(live.p) : ParamsCall(p, "continuous")

ParamsUpdateStructural == \E p \in StructuralEdits(live.p) : ParamsCall(p, "structural")

ParamsUpdateSelected == \E p \in SelectablePresets : ParamsCall(p, "selected")

ParamsNext ==
    \/ ParamsUpdateSame
    \/ ParamsUpdateContinuous
    \/ ParamsUpdateStructural
    \/ ParamsUpdateSelected

SpecParams == ParamsInit /\ [][ParamsNext]_vars

(***************************************************************************)
(* Claims about LiveParams::update, checked under SpecParams.              *)
(***************************************************************************)
\* C11: when update is called with a preset that differs from the preset of
\* the previous call only in continuous (f32) fields, it returns false.
C11_ContinuousEditUnchanged ==
    (live.calls > 0 /\ EnumsOf(live.p) = EnumsOf(live.prev)) => live.changed = FALSE

\* update has been called with a preset whose f32 fields differ from those of
\* the previous one while every enum and flag is the same, and returned false
C11_Witness ==
    /\ live.calls > 0
    /\ live.op = "continuous"
    /\ EnumsOf(live.p) = EnumsOf(live.prev)
    /\ FloatsOf(live.p) # FloatsOf(live.prev)
    /\ live.changed = FALSE

\* the ten structural fields read back from a fingerprint, bit field by bit field
FieldsOfHash(hash) ==
    [w |-> <<WaveformFrom(U32Of(hash % 16)),
             WaveformFrom(U32Of((hash \div 16) % 16)),
             WaveformFrom(U32Of((hash \div 256) % 16))>>,
     lw |-> LfoWaveformFrom(U32Of((hash \div 65536) % 16)),
     vib |-> <<(hash \div 4096) % 2 = 1, (hash \div 8192) % 2 = 1,
               (hash \div 16384) % 2 = 1>>,
     lfo |-> (hash \div 32768) % 2 = 1,
     delay |-> (hash \div 1048576) % 2 = 1,
     reverb |-> (hash \div 2097152) % 2 = 1]

\* C12: the fingerprint is injective on the structural fields (the three
\* oscillator waveforms, the three vibrato flags, lfo_enabled, the LFO waveform,
\* delay.enabled and reverb.enabled): the fields can be read back from it, so
\* update returns true whenever any of them differs from the previous preset's.
C12_FingerprintInjective ==
    live.calls > 0 =>
        /\ FieldsOfHash(live.self.last_struct_hash) = EnumsOf(live.p)
        /\ FieldsOfHash(live.before.last_struct_hash) = EnumsOf(live.prev)
        /\ EnumsOf(live.p) # EnumsOf(live.prev) => live.changed = TRUE

\* update has been called with a preset that differs from the previous one in
\* the waveform of oscillator 2 alone, and returned true
C12_Witness ==
    /\ live.calls > 0
    /\ live.op = "structural"
    /\ live.p.osc2.waveform # live.prev.osc2.waveform
    /\ live.p.osc1.waveform = "Noise"
    /\ live.changed = TRUE

(***************************************************************************)
(* AudioManager (audio.rs:314-475): the control context enqueues commands  *)
(* on a bounded channel; the render callback drains the channel and then   *)
(* renders the installed voice graph.                                      *)
(***************************************************************************)
\* crossbeam_channel::bounded(16)
QueueCapacity == 16

\* UI events (note presses, releases, preset selections) in a run
MaxEvents == 10

\* -0.0
F32_NegZero == [hi |-> 32768, lo |-> 0]

\* `x != 0.0` on an f32: false exactly for +0.0 and -0.0
F32_NonZero(x) == x # F32_0 /\ x # F32_NegZero

\* `-x` on an f32: the sign bit flipped
F32_Neg(x) == [x EXCEPT !.hi = (x.hi + 32768) % 65536]

\* the pitch chain create_pitch builds for one oscillator: the octave is baked
\* into a fixed gain of powf(2, octave), present only when octave != 0.0; the
\* detune is linked to its cell; the vibrato LFO is summed in when the
\* oscillator's flag is set and an LFO was built
create_pitch(params, detune_cell, vibrato_enabled, vib) ==
    [gain_fixed_pow2 |-> IF F32_NonZero(params.octave) THEN <<params.octave>> ELSE << >>,
     offset_linked |-> detune_cell,
     sum_lfo |-> IF vibrato_enabled THEN vib ELSE << >>]

\* FastLfo::new followed by set_range(-amt, amt)
LfoNode(p, amt) ==
    [frequency |-> p.freq, waveform |-> p.waveform, min |-> F32_Neg(amt), max |-> amt]

\* build_voice: what the graph keeps of the preset it was built from.  Levels,
\* envelopes, cutoff, resonance, filter_env_amt, lfo_filt_amt, delay feedback
\* and mix, and the reverb parameters are AudioParam::Linked to their cells in
\* every graph; the waveforms, the octave gains, the LFO frequency, waveform and
\* ranges, and the delay times (d.time and d.time * 1.15, AudioParam::Static)
\* are values fixed when the graph is built
build_voice(preset) ==
    LET vibrato_node == IF preset.lfo_enabled
                          THEN <<LfoNode(preset.lfo, preset.lfo.vib_amt)>> ELSE << >>
        filter_lfo_node == IF preset.lfo_enabled
                             THEN <<LfoNode(preset.lfo, preset.lfo.filt_amt)>> ELSE << >>
    IN  [osc1 |-> [pitch |-> create_pitch(preset.osc1, "osc1_detune", preset.osc1.vibrato,
                                          vibrato_node),
                   waveform |-> preset.osc1.waveform],
         osc2 |-> [pitch |-> create_pitch(preset.osc2, "osc2_detune", preset.osc2.vibrato,
                                          vibrato_node),
                   waveform |-> preset.osc2.waveform],
         osc3 |-> [pitch |-> create_pitch(preset.osc3, "osc3_detune", preset.osc3.vibrato,
                                          vibrato_node),
                   waveform |-> preset.osc3.waveform],
         filter_lfo |-> filter_lfo_node,
         delay |-> IF preset.delay.enabled THEN <<preset.delay.time>> ELSE << >>,
         reverb |-> preset.reverb.enabled]

\* bit pattern of 440.0
F32_440 == U32Of(1138491392)

\* the piano key played in the runs: A5, a key of PianoWidget::new(36, 61)
PianoKey == 81

\* note_on's `440.0 * 2.0f32.powf((note as f32 - 69.0) / 12.0)` for the keys
\* C2, A4 and A5: 65.40639 (0x4282D012), 440.0 and 880.0
NoteFreq(note) ==
    CASE note = 36 -> U32Of(1115869202)
      [] note = 69 -> F32_440
      [] note = 81 -> U32Of(1146880000)

\* AudioCommand values; seq numbers the commands in the order they were created
CmdNoteOn(freq, seq) == [kind |-> "NoteOn", freq |-> freq, p |-> PresetDefault, seq |-> seq]
CmdNoteOff(seq) == [kind |-> "NoteOff", freq |-> F32_0, p |-> PresetDefault, seq |-> seq]
CmdPreset(kind, p, seq) == [kind |-> kind, freq |-> F32_0, p |-> p, seq |-> seq]

\* the command update_preset sends, given what LiveParams::update returned
UpdatePresetCommand(struct_changed, preset, seq) ==
    IF struct_changed THEN CmdPreset("RebuildVoice", preset, seq)
    ELSE CmdPreset("UpdatePreset", preset, seq)

\* the command note_on or note_off sends
NoteCommand(on, note, seq) == IF on THEN CmdNoteOn(NoteFreq(note), seq) ELSE CmdNoteOff(seq)

\* a variant of SendNoteCommands that sends the note command alone
SendNoteCommandsNoteOnly(mode, bank, index, params, on, note, seq) ==
    IF mode = "Local"
    THEN [params |-> params, updated |-> FALSE, changed |-> FALSE,
          cmds |-> <<NoteCommand(on, note, seq + 1)>>]
    ELSE [params |-> params, updated |-> FALSE, changed |-> FALSE, cmds |-> << >>]

\* send_note with audio present: in Local mode update_preset on the selected
\* preset when the bank is not empty, then note_on or note_off; nothing is
\* enqueued in Remote mode
SendNoteCommands(mode, bank, index, params, on, note, seq) ==
    IF mode = "Local"
    THEN IF bank # << >>
         THEN LET r == LiveParams_update(params, bank[index + 1])
              IN  [params |-> r.self, updated |-> TRUE, changed |-> r.changed,
                   cmds |-> <<UpdatePresetCommand(r.changed, bank[index + 1], seq + 1),
                              NoteCommand(on, note, seq + 2)>>]
         ELSE [params |-> params, updated |-> FALSE, changed |-> FALSE,
               cmds |-> <<NoteCommand(on, note, seq + 1)>>]
    ELSE [params |-> params, updated |-> FALSE, changed |-> FALSE, cmds |-> << >>]

\* a variant of send that gives up on the commands that find the channel full
SendEachDropsWhenFull(queue, cmds) ==
    LET room == QueueCapacity - Len(queue)
        n == IF Len(cmds) <= room THEN Len(cmds) ELSE room
    IN  [queue |-> queue \o SubSeq(cmds, 1, n), pending |-> << >>]

\* Sender::send on the bounded channel, for the commands a handler sends in
\* turn: each is appended while the channel has room; at the first one that
\* finds it full the calling thread blocks in send with the rest still to go
SendEach(queue, cmds) ==
    LET room == QueueCapacity - Len(queue)
        n == IF Len(cmds) <= room THEN Len(cmds) ELSE room
    IN  [queue |-> queue \o SubSeq(cmds, 1, n), pending |-> SubSeq(cmds, n + 1, Len(cmds))]

\* a variant of try_recv that takes the newest command
try_recv_Newest(queue) ==
    [cmd |-> queue[Len(queue)], rest |-> SubSeq(queue, 1, Len(queue) - 1)]

\* Receiver::try_recv on a channel that holds a command
try_recv(queue) == [cmd |-> Head(queue), rest |-> Tail(queue)]

\* the bank in the runs: the default preset, one with the default's enums and
\* flags and every f32 field different, and one that differs from the default
\* in every enum and flag
AudioBank ==
    <<PresetDefault,
      PresetOf([k \in FloatFields |-> U32Of(1065353216 + k * 65536)],
               EnumsOf(PresetDefault)),
      PresetOf([k \in FloatFields |-> U32Of(270544960 + k * 16843009)],
               [w |-> <<"Square", "Noise", "Sine">>, lw |-> "Triangle",
                vib |-> <<TRUE, FALSE, TRUE>>, lfo |-> TRUE, delay |-> TRUE,
                reverb |-> TRUE])>>

\* vec![0.0; 1024]
ScopeLen == 1024

\* a variant of the scope update that keeps the first frames of a long block
ScopeUpdateFromBlockStart(scope_buffer, data, channels) ==
    LET frames == Len(data) \div channels
        buffer_len == Len(scope_buffer)
    IN  IF frames >= buffer_len
        THEN AsVec([i \in 1..buffer_len |-> data[(i - 1) * channels + 1]])
        ELSE LET start_index == buffer_len - frames
             IN  AsVec([i \in 1..buffer_len |->
                          IF i <= start_index THEN scope_buffer[i + frames]
                          ELSE data[(i - 1 - start_index) * channels + 1]])

\* the body of `if let Ok(mut scope) = scope_buffer_clone.try_lock()`: a block
\* of at least buffer_len frames overwrites the buffer with the first channel
\* of its last buffer_len frames; a shorter one shifts the buffer left by its
\* frames (copy_within(frames.., 0)) and writes its first channel at the end
ScopeUpdate(scope_buffer, data, channels) ==
    LET frames == Len(data) \div channels
        buffer_len == Len(scope_buffer)
    IN  IF frames >= buffer_len
        THEN LET offset == frames - buffer_len
             IN  AsVec([i \in 1..buffer_len |-> data[(offset + (i - 1)) * channels + 1]])
        ELSE LET start_index == buffer_len - frames
             IN  AsVec([i \in 1..buffer_len |->
                          IF i <= start_index THEN scope_buffer[i + frames]
                          ELSE data[(i - 1 - start_index) * channels + 1]])

\* default_config.channels()
ChannelCounts == {1, 2}

\* frames per callback buffer in the runs of the engine: as many as the scope
\* buffer holds
CallbackFrames == ScopeLen

\* the value the opaque voice graph writes into the blocks of the runs: 0.5
VoiceSamples == {[hi |-> 16128, lo |-> 0]}

\* no block: the callback is not between rendering and returning
NoBlock == [by |-> << >>, sample |-> F32_0, frames |-> 0]

NoEvent == [kind |-> "none", mode |-> "Local", bank_empty |-> FALSE, first_seq |-> 0,
            cmds |-> 0, blocked |-> FALSE]

NoUpdate == [p |-> PresetDefault, changed |-> FALSE, seq |-> 0]

\* AudioManager::new, and the PicoEditApp fields the audio handlers use
AudioNew ==
    [pc |-> "AudioManager",
     audio_mode |-> "Local",
     last_preset_index |-> 0,
     key_down |-> FALSE,
     params |-> LiveParams_update(LiveParams_new, PresetDefault).self,
     queue |-> << >>,
     pending |-> << >>,
     cb |-> "drain",
     channels |-> 2,
     voice |-> <<build_voice(PresetDefault)>>,
     rebuilt |-> << >>,
     block |-> NoBlock,
     scope_buffer |-> Rep(F32_0, ScopeLen),
     scope_lock |-> "free",
     bank_waiter |-> "none",
     portamento |-> F32_0,
     target |-> F32_440,
     gate |-> 0,
     created |-> 0,
     log |-> << >>,
     empty_at |-> 0,
     applied |-> CmdNoteOff(0),
     event |-> NoEvent,
     update |-> NoUpdate,
     events |-> 0]

\* the application with a bank loaded from a file (three presets, or none), the
\* first preset selected, and the audio mode as the combo box of draw_top_panel
\* left it
AudioInit ==
    /\ storage \in {AudioBank, << >>}
    /\ current_preset_index = 0
    /\ status_msg = <<"Ready">>
    /\ app = AppIdle
    /\ audio \in { [AudioNew EXCEPT !.audio_mode = m, !.channels = c] :
                    m \in {"Local", "Remote"}, c \in ChannelCounts }
    /\ live = EngineNone
    /\ glide = EngineNone
    /\ lfo = EngineNone
    /\ IoIdle
    /\ codec = CodecIdle
    /\ framer = FramerIdle

\* the control context is between two handlers: not inside a send, and not
\* inside draw_visualizer with the scope buffer locked
UiRunning ==
    /\ audio.pending = << >>
    /\ audio.scope_lock # "ui"
    /\ audio.events < MaxEvents

\* a piano event handled by send_note
UiSendNote(on) ==
    /\ UiRunning
    /\ audio.key_down = ~on
    /\ \E r \in {SendNoteCommands(audio.audio_mode, storage, current_preset_index,
                                  audio.params, on, PianoKey, audio.created)} :
       \E s \in {SendEach(audio.queue, r.cmds)} :
          audio' = [audio EXCEPT
                      !.key_down = on,
                      !.params = r.params,
                      !.queue = s.queue,
                      !.pending = s.pending,
                      !.created = audio.created + Len(r.cmds),
                      !.event = [kind |-> IF on THEN "press" ELSE "release",
                                 mode |-> audio.audio_mode, bank_empty |-> storage = << >>,
                                 first_seq |-> audio.created + 1, cmds |-> Len(r.cmds),
                                 blocked |-> s.pending # << >>],
                      !.update = IF r.updated
                                 THEN [p |-> storage[current_preset_index + 1],
                                       changed |-> r.changed, seq |-> audio.created + 1]
                                 ELSE audio.update,
                      !.events = audio.events + 1]
    /\ UNCHANGED <<appVars, codec, framer, live, glide, lfo, ioVars>>

UiNotePress == UiSendNote(TRUE)

UiNoteRelease == UiSendNote(FALSE)

\* PicoEditApp::update after the ">" button of the editor moved to the next
\* preset: last_preset_index follows, and update_preset is called in either
\* audio mode
UiPresetChange ==
    /\ UiRunning
    /\ \E i \in {current_preset_index + 1} :
          /\ i < Len(storage)
          /\ current_preset_index' = i
          /\ \E r \in {LiveParams_update(audio.params, storage[i + 1])} :
             \E s \in {SendEach(audio.queue,
                           <<UpdatePresetCommand(r.changed, storage[i + 1],
                                                 audio.created + 1)>>)} :
                audio' = [audio EXCEPT
                            !.last_preset_index = i,
                            !.params = r.self,
                            !.queue = s.queue,
                            !.pending = s.pending,
                            !.created = audio.created + 1,
                            !.event = [kind |-> "preset", mode |-> audio.audio_mode,
                                       bank_empty |-> FALSE,
                                       first_seq |-> audio.created + 1, cmds |-> 1,
                                       blocked |-> s.pending # << >>],
                            !.update = [p |-> storage[i + 1], changed |-> r.changed,
                                        seq |-> audio.created + 1],
                            !.events = audio.events + 1]
    /\ UNCHANGED <<storage, status_msg, app, codec, framer, live, glide, lfo, ioVars>>

\* a send that found the channel full returns once the callback has made room,
\* and the handler goes on with its remaining sends
UiSendResumes ==
    /\ audio.pending # << >>
    /\ Len(audio.queue) < QueueCapacity
    /\ \E s \in {SendEach(audio.queue, audio.pending)} :
          audio' = [audio EXCEPT !.queue = s.queue, !.pending = s.pending]
    /\ UNCHANGED <<appVars, codec, framer, live, glide, lfo, ioVars>>

\* a variant of ApplyCommand in which NoteOff also returns the pitch target to
\* the start frequency
ApplyCommandNoteOffResetsTarget(a, cmd) ==
    CASE cmd.kind = "UpdatePreset" -> [a EXCEPT !.portamento = cmd.p.portamento]
      [] cmd.kind = "RebuildVoice" ->
            [a EXCEPT !.portamento = cmd.p.portamento, !.voice = <<build_voice(cmd.p)>>]
      [] cmd.kind = "NoteOn" -> [a EXCEPT !.target = cmd.freq, !.gate = 1]
      [] cmd.kind = "NoteOff" -> [a EXCEPT !.gate = 0, !.target = F32_440]

\* a variant of ApplyCommand in which RebuildVoice leaves the installed graph
ApplyCommandRebuildKeepsVoice(a, cmd) ==
    CASE cmd.kind = "UpdatePreset" -> [a EXCEPT !.portamento = cmd.p.portamento]
      [] cmd.kind = "RebuildVoice" -> [a EXCEPT !.portamento = cmd.p.portamento]
      [] cmd.kind = "NoteOn" -> [a EXCEPT !.target = cmd.freq, !.gate = 1]
      [] cmd.kind = "NoteOff" -> [a EXCEPT !.gate = 0]

\* the match on a received command in the render callback
ApplyCommand(a, cmd) ==
    CASE cmd.kind = "UpdatePreset" -> [a EXCEPT !.portamento = cmd.p.portamento]
      [] cmd.kind = "RebuildVoice" ->
            [a EXCEPT !.portamento = cmd.p.portamento, !.voice = <<build_voice(cmd.p)>>]
      [] cmd.kind = "NoteOn" -> [a EXCEPT !.target = cmd.freq, !.gate = 1]
      [] cmd.kind = "NoteOff" -> [a EXCEPT !.gate = 0]

\* one turn of `while let Ok(cmd) = rx.try_recv()` that receives a command
CallbackReceives ==
    /\ audio.cb = "drain"
    /\ audio.queue # << >>
    /\ \E r \in {try_recv(audio.queue)} :
          audio' = [ApplyCommand(audio, r.cmd) EXCEPT
                      !.queue = r.rest,
                      !.log = Append(audio.log, r.cmd.seq),
                      !.rebuilt = IF r.cmd.kind = "RebuildVoice" THEN <<r.cmd.p>>
                                  ELSE audio.rebuilt,
                      !.applied = r.cmd]
    /\ UNCHANGED <<appVars, codec, framer, live, glide, lfo, ioVars>>

\* the turn in which try_recv finds the channel empty: the loop ends
CallbackObservesEmpty ==
    /\ audio.cb = "drain"
    /\ audio.queue = << >>
    /\ audio' = [audio EXCEPT !.cb = "render", !.empty_at = Len(audio.log)]
    /\ UNCHANGED <<appVars, codec, framer, live, glide, lfo, ioVars>>

\* `if let Some(v) = &mut voice { if channels == 2 { v.process(data, 0) } ..`:
\* the installed graph fills the block on a two-channel stream; on any other
\* stream, or with an empty slot, the block is zeroed
RenderBlock(a, sample) ==
    IF a.voice # << >> /\ a.channels = 2
    THEN [by |-> a.voice, sample |-> sample, frames |-> CallbackFrames]
    ELSE [by |-> << >>, sample |-> F32_0, frames |-> CallbackFrames]

\* the block is rendered; the callback goes on to the scope update
CallbackRenders ==
    /\ audio.cb = "render"
    /\ \E sample \in VoiceSamples :
          audio' = [audio EXCEPT !.cb = "scope", !.block = RenderBlock(audio, sample)]
    /\ UNCHANGED <<appVars, codec, framer, live, glide, lfo, ioVars>>

\* the interleaved data of a rendered block
BlockData(block, channels) == Rep(block.sample, block.frames * channels)

\* a variant of the scope update that writes the buffer whether or not
\* try_lock succeeded
ScopeStepIgnoresLock(a, data) ==
    [a EXCEPT !.scope_buffer = ScopeUpdate(a.scope_buffer, data, a.channels)]

\* `if let Ok(mut scope) = scope_buffer_clone.try_lock() { .. }`: the buffer is
\* updated when the lock is free and left alone when the UI holds it
ScopeStep(a, data) ==
    IF a.scope_lock = "free"
    THEN [a EXCEPT !.scope_buffer = ScopeUpdate(a.scope_buffer, data, a.channels)]
    ELSE a

\* the scope update, after which the callback returns; the next callback
\* starts with its receive loop
CallbackUpdatesScope ==
    /\ audio.cb = "scope"
    /\ \E data \in {BlockData(audio.block, audio.channels)} :
       \E a \in {ScopeStep(audio, data)} :
          audio' = [a EXCEPT !.cb = "drain", !.block = NoBlock]
    /\ UNCHANGED <<appVars, codec, framer, live, glide, lfo, ioVars>>

\* draw_visualizer: `if let Ok(buffer) = audio.scope_buffer.try_lock()` finds
\* the lock free and the UI thread draws the buffer under the lock
UiDrawsVisualizer ==
    /\ audio.pending = << >>
    /\ audio.scope_lock = "free"
    /\ audio' = [audio EXCEPT !.scope_lock = "ui"]
    /\ UNCHANGED <<appVars, codec, framer, live, glide, lfo, ioVars>>

\* the guard is dropped at the end of the `if let` of draw_visualizer
UiLeavesVisualizer ==
    /\ audio.scope_lock = "ui"
    /\ audio' = [audio EXCEPT !.scope_lock = "free"]
    /\ UNCHANGED <<appVars, codec, framer, live, glide, lfo, ioVars>>

AudioNext ==
    \/ UiNotePress
    \/ UiNoteRelease
    \/ UiPresetChange
    \/ UiSendResumes
    \/ CallbackReceives
    \/ CallbackObservesEmpty
    \/ CallbackRenders
    \/ CallbackUpdatesScope
    \/ UiDrawsVisualizer
    \/ UiLeavesVisualizer

SpecAudio == AudioInit /\ [][AudioNext]_vars

(***************************************************************************)
(* Claims about the command queue and the render callback, checked under   *)
(* SpecAudio.                                                              *)
(***************************************************************************)
\* C13: with the queue at its capacity of 16 and the callback not draining, a
\* further enqueue (note_on, note_off or update_preset) returns without
\* blocking the control context and its command is dropped: the queue never
\* holds more than 16 commands and no handler is ever left inside a send.
C13_FullQueueDropsWithoutBlocking ==
    /\ Len(audio.queue) <= QueueCapacity
    /\ audio.pending = << >>

\* C14: the render callback removes and applies the queued commands in FIFO
\* order, none skipped and none applied twice, and renders only after a receive
\* has found the queue empty; no command is applied once rendering has started.
C14_DrainFifoThenRender ==
    /\ \A i \in 1..Len(audio.log) : audio.log[i] = i
    /\ \A i \in 1..Len(audio.queue) : audio.queue[i].seq = Len(audio.log) + i
    /\ audio.cb = "render" => audio.empty_at = Len(audio.log)

\* the callback has applied six commands, the last a RebuildVoice, found the
\* queue empty and is rendering, while two commands enqueued since then wait
\* for the next callback
C14_Witness ==
    /\ audio.cb = "render"
    /\ Len(audio.log) = 6
    /\ Len(audio.queue) = 2
    /\ audio.applied.kind = "RebuildVoice"

\* C18: once an UpdatePreset command has been drained, the installed voice
\* graph is the graph build_voice makes from that command's preset, and the
\* glide amount is that preset's: every continuous value other than portamento
\* has reached the graph through the cells, without a rebuild.
C18_UpdatePresetMatchesFreshBuild ==
    (audio.applied.seq > 0 /\ audio.applied.kind = "UpdatePreset") =>
        /\ audio.voice = <<build_voice(audio.applied.p)>>
        /\ audio.portamento = audio.applied.p.portamento

\* commands the last UI event has put on the queue so far
EnqueuedByEvent == audio.event.cmds - Len(audio.pending)

\* the handler of the last UI event has returned
HandlerReturned == audio.event.kind # "none" /\ audio.pending = << >>

\* the command numbered seq, while it is on the queue, is of one of the kinds
QueuedKindIn(seq, kinds) ==
    \A i \in 1..Len(audio.queue) :
        audio.queue[i].seq = seq => audio.queue[i].kind \in kinds

CellsExpected(p) ==
    [osc1_level |-> p.osc1.level, osc1_octave |-> p.osc1.octave,
     osc1_detune |-> p.osc1.detune,
     osc2_level |-> p.osc2.level, osc2_octave |-> p.osc2.octave,
     osc2_detune |-> p.osc2.detune,
     osc3_level |-> p.osc3.level, osc3_octave |-> p.osc3.octave,
     osc3_detune |-> p.osc3.detune,
     noise_level |-> p.noise,
     cutoff |-> p.filter.cutoff, resonance |-> p.filter.resonance,
     filter_env_amt |-> p.filter.env_amt,
     filter_attack |-> p.filter.attack, filter_decay |-> p.filter.decay,
     filter_sustain |-> p.filter.sustain, filter_release |-> p.filter.release,
     amp_attack |-> p.amp.attack, amp_decay |-> p.amp.decay,
     amp_sustain |-> p.amp.sustain, amp_release |-> p.amp.release,
     delay_time |-> p.delay.time, delay_feedback |-> p.delay.feedback,
     delay_mix |-> p.delay.mix,
     reverb_size |-> p.reverb.size, reverb_damping |-> p.reverb.damping,
     reverb_mix |-> p.reverb.mix,
     lfo_freq |-> p.lfo.freq, lfo_vib_amt |-> p.lfo.vib_amt,
     lfo_filt_amt |-> p.lfo.filt_amt,
     last_struct_hash |-> StructHash(p)]

\* C20: after any sequence of update calls, each of the thirty cells holds the
\* corresponding continuous field of the preset of the latest call and
\* last_struct_hash is that preset's fingerprint; the command update_preset
\* sends for it is RebuildVoice exactly when update returned true, and
\* UpdatePreset otherwise.
C20_CellsAndCommandFollowUpdate ==
    /\ audio.params = CellsExpected(audio.update.p)
    /\ \A c \in {audio.queue[i] : i \in 1..Len(audio.queue)}
               \cup {audio.pending[i] : i \in 1..Len(audio.pending)} :
          c.seq = audio.update.seq =>
              /\ c.p = audio.update.p
              /\ c.kind = IF audio.update.changed THEN "RebuildVoice" ELSE "UpdatePreset"

\* after the updates for the first two presets, update was called for the third
\* and returned true; its RebuildVoice is on the queue and the cells hold the
\* third preset's values
C20_Witness ==
    /\ audio.update.p = AudioBank[3]
    /\ audio.update.changed = TRUE
    /\ audio.update.seq >= 3
    /\ audio.params.delay_feedback = AudioBank[3].delay.feedback
    /\ audio.params.delay_feedback # AudioBank[3].delay.mix
    /\ \E i \in 1..Len(audio.queue) :
          /\ audio.queue[i].seq = audio.update.seq
          /\ audio.queue[i].kind = "RebuildVoice"

(***************************************************************************)
(* f32 arithmetic as the glide and the LFO use it: IEEE 754 binary32 with  *)
(* round-to-nearest-even, on zero and normal numbers.  A number is kept    *)
(* unpacked as sign, 24-bit significand sig (2^23 <= sig < 2^24, or 0) and *)
(* exponent exp, with value sig * 2^exp.                                   *)
(***************************************************************************)
F32Zero(neg) == [neg |-> neg, exp |-> 0, sig |-> 0]

\* the number a bit pattern holds (zero or normal)
F32Unpack(bits) ==
    LET biased == (bits.hi \div 128) % 256
        frac == (bits.hi % 128) * 65536 + bits.lo
    IN  IF biased = 0 THEN F32Zero(bits.hi >= 32768)
        ELSE [neg |-> bits.hi >= 32768, exp |-> biased - 150, sig |-> 8388608 + frac]

\* number of bits of n (0 <= n < 2^30)
BitLen(n) == CHOOSE k \in 0..30 : n < 2 ^ k /\ (k = 0 \/ n >= 2 ^ (k - 1))

\* the f32 nearest to (n + f) * 2^exp, where 0 < f < 1 if sticky and f = 0
\* otherwise; ties go to the even significand
F32Round(neg, n, exp, sticky) ==
    LET k == BitLen(n)
    IN  IF n = 0 THEN F32Zero(neg)
        ELSE IF k <= 24 THEN [neg |-> neg, exp |-> exp - (24 - k), sig |-> n * 2 ^ (24 - k)]
        ELSE LET r == k - 24
                 q == n \div 2 ^ r
                 rem == n % 2 ^ r
                 half == 2 ^ (r - 1)
                 up == rem > half \/ (rem = half /\ (sticky \/ q % 2 = 1))
                 q1 == IF up THEN q + 1 ELSE q
             IN  IF q1 = 16777216
                 THEN [neg |-> neg, exp |-> exp + r + 1, sig |-> 8388608]
                 ELSE [neg |-> neg, exp |-> exp + r, sig |-> q1]

\* |x| < |y|
F32MagLt(x, y) ==
    IF y.sig = 0 THEN FALSE
    ELSE IF x.sig = 0 THEN TRUE
    ELSE x.exp < y.exp \/ (x.exp = y.exp /\ x.sig < y.sig)

\* `x < y`
F32Lt(x, y) ==
    IF x.sig = 0 /\ y.sig = 0 THEN FALSE
    ELSE IF x.sig = 0 THEN ~y.neg
    ELSE IF y.sig = 0 THEN x.neg
    ELSE IF x.neg # y.neg THEN x.neg
    ELSE IF x.neg THEN F32MagLt(y, x) ELSE F32MagLt(x, y)

\* `-x` and `x.abs()`
F32Negate(x) == [x EXCEPT !.neg = ~x.neg]
F32Abs(x) == [x EXCEPT !.neg = FALSE]

\* `x + y`: the smaller operand is aligned to the larger with three guard bits
\* and a sticky bit, then the sum or difference is rounded
F32Add(x, y) ==
    IF x.sig = 0 THEN (IF y.sig = 0 THEN F32Zero(x.neg /\ y.neg) ELSE y)
    ELSE IF y.sig = 0 THEN x
    ELSE LET a == IF F32MagLt(x, y) THEN y ELSE x
             b == IF F32MagLt(x, y) THEN x ELSE y
             d == a.exp - b.exp
             big == a.sig * 8
             small == IF d > 26 THEN 0 ELSE (b.sig * 8) \div 2 ^ d
             sticky == IF d > 26 THEN TRUE ELSE (b.sig * 8) % 2 ^ d # 0
         IN  IF a.neg = b.neg THEN F32Round(a.neg, big + small, a.exp - 3, sticky)
             ELSE IF big = small /\ ~sticky THEN F32Zero(FALSE)
             ELSE F32Round(a.neg, big - small - (IF sticky THEN 1 ELSE 0), a.exp - 3, sticky)

\* `x - y`
F32Sub(x, y) == F32Add(x, F32Negate(y))

\* `x * y`: the 48-bit product of the significands, from 12-bit halves, rounded
F32Mul(x, y) ==
    IF x.sig = 0 \/ y.sig = 0 THEN F32Zero(x.neg # y.neg)
    ELSE LET x1 == x.sig \div 4096
             x0 == x.sig % 4096
             y1 == y.sig \div 4096
             y0 == y.sig % 4096
             mid == x1 * y0 + x0 * y1
             low == x0 * y0 + (mid % 4096) * 4096
             lo == low % 16777216
             hi == x1 * y1 + mid \div 4096 + low \div 16777216
         IN  F32Round(x.neg # y.neg, hi * 4 + lo \div 4194304, x.exp + y.exp + 22,
                      lo % 4194304 # 0)

\* `x / y` for y not zero: 28 quotient bits of the significands, seven at a
\* time, and the remainder as the sticky bit, rounded
F32Div(x, y) ==
    IF x.sig = 0 THEN F32Zero(x.neg # y.neg)
    ELSE LET q1 == (x.sig * 128) \div y.sig
             r1 == (x.sig * 128) % y.sig
             q2 == (r1 * 128) \div y.sig
             r2 == (r1 * 128) % y.sig
             q3 == (r2 * 128) \div y.sig
             r3 == (r2 * 128) % y.sig
             q4 == (r3 * 128) \div y.sig
             r4 == (r3 * 128) % y.sig
         IN  F32Round(x.neg # y.neg, ((q1 * 128 + q2) * 128 + q3) * 128 + q4,
                      x.exp - y.exp - 28, r4 # 0)

\* `x.clamp(min, max)`
F32Clamp(x, min, max) ==
    LET x1 == IF F32Lt(x, min) THEN min ELSE x
    IN  IF F32Lt(max, x1) THEN max ELSE x1

\* the numbers 0.0, 0.5, 1.0, 2.0, 0.1, 0.999 and 440.0
Num_0 == F32Unpack(F32_0)
Num_0_5 == F32Unpack(F32_0_5)
Num_1 == F32Unpack(F32_1)
Num_2 == F32Unpack(U32Of(1073741824))
Num_0_1 == F32Unpack(F32_0_1)
Num_0_999 == F32Unpack(U32Of(1065336439))
Num_440 == F32Unpack(F32_440)

(***************************************************************************)
(* PortamentoFreq (audio.rs:64-140): the glide of the oscillator           *)
(* frequency toward the target set by NoteOn: SpecGlide.                   *)
(***************************************************************************)
\* `state.counter % 32 == 0`: the control rate
ControlPeriod == 32

\* control ticks followed after the latest set_target or set_portamento
MaxTicks == 8

\* NoteOn commands applied in a run
MaxNoteOns == 2

\* bit pattern of 2^-22
F32_2_pow_minus_22 == U32Of(880803840)

\* portamento values set: 0.0, -0.5, 1.0e-8, 2^-22, 0.25 and 1.0
GlideAmounts ==
    { F32_0, [hi |-> 48896, lo |-> 0], U32Of(841731191), F32_2_pow_minus_22,
      U32Of(1048576000), F32_1 }

\* keys played: C2 and A5
GlideNotes == {36, 81}

\* lengths of the buffers process is called with
BufferSizes == {8, 32}

\* a variant of GlideFactor that adds the amount
GlideFactorGrowing(p) == F32Add(Num_1, p)

\* `let factor = 1.0 - p`
GlideFactor(p) == F32Sub(Num_1, p)

\* a variant of ControlTick that leaves the frequency alone when p is not above 0
ControlTickGlideOnly(current_freq, target, p, factor) ==
    IF F32Lt(Num_0, p)
    THEN LET diff == F32Sub(target, current_freq)
         IN  IF F32Lt(F32Abs(diff), Num_0_1) THEN target
             ELSE F32Add(current_freq, F32Mul(diff, factor))
    ELSE current_freq

\* the body of `if state.counter % 32 == 0`: the frequency after a control tick
ControlTick(current_freq, target, p, factor) ==
    IF F32Lt(Num_0, p)
    THEN LET diff == F32Sub(target, current_freq)
         IN  IF F32Lt(F32Abs(diff), Num_0_1) THEN target
             ELSE F32Add(current_freq, F32Mul(diff, factor))
    ELSE target

\* the sample loop of process over the n remaining samples: the state
\* afterwards and the samples written.  Only counter % 32 is read, and the
\* usize counter wraps at a multiple of 32, so the counter is kept modulo 32.
\* (Each value is bound once it is computed, in a one-element set.)
RECURSIVE ProcessLoop(_, _, _, _, _)
ProcessLoop(state, target, p, factor, n) ==
    IF n = 0 THEN [state |-> state, out |-> << >>]
    ELSE CHOOSE result \in
            UNION { { [state |-> rest.state, out |-> <<current>> \o rest.out] :
                        rest \in {ProcessLoop([current_freq |-> current,
                                               counter |-> (state.counter + 1) % ControlPeriod],
                                              target, p, factor, n - 1)} } :
                    current \in {IF state.counter % ControlPeriod = 0
                                 THEN ControlTick(state.current_freq, target, p, factor)
                                 ELSE state.current_freq} } : TRUE

\* PortamentoFreq::process on a buffer of n samples
PortamentoProcess(state, target, amount, n) ==
    CHOOSE result \in
        UNION { { ProcessLoop(state, target, p, factor, n) : factor \in {GlideFactor(p)} } :
                p \in {F32Clamp(amount, Num_0, Num_0_999)} } : TRUE

NoTick == [happened |-> FALSE, before |-> Num_440, after |-> Num_440]

\* PortamentoFreq::new(440.0)
GlideNew ==
    [pc |-> "PortamentoFreq",
     target_freq |-> Num_440,
     portamento_amount |-> Num_0,
     state |-> [current_freq |-> Num_440, counter |-> 0],
     buffer |-> << >>,
     first |-> 1,
     since |-> 0,
     tick |-> NoTick,
     ticks |-> 0,
     block |-> [n |-> 0, osc |-> << >>, counter_before |-> 0, ticks |-> 0],
     note_ons |-> 0]

GlideInit ==
    /\ glide = GlideNew
    /\ audio = EngineNone
    /\ live = EngineNone
    /\ lfo = EngineNone
    /\ IoIdle
    /\ codec = CodecIdle
    /\ framer = FramerIdle
    /\ AppInit

\* NoteOn drained by the callback: set_target(freq)
GlideSetTarget ==
    /\ glide.note_ons < MaxNoteOns
    /\ \E note \in GlideNotes :
          glide' = [glide EXCEPT !.target_freq = F32Unpack(NoteFreq(note)),
                                 !.since = 0, !.ticks = 0, !.buffer = << >>,
                                 !.tick = NoTick,
                                 !.note_ons = glide.note_ons + 1]
    /\ UNCHANGED <<appVars, codec, framer, audio, live, lfo, ioVars>>

\* UpdatePreset or RebuildVoice drained by the callback, before the first
\* NoteOn or next to it: set_portamento(p.portamento)
GlideSetPortamento ==
    /\ glide.note_ons <= 1
    /\ glide.since = 0
    /\ glide.buffer = << >>
    /\ \E amount \in GlideAmounts :
          /\ F32Unpack(amount) # glide.portamento_amount
          /\ glide' = [glide EXCEPT !.portamento_amount = F32Unpack(amount)]
    /\ UNCHANGED <<appVars, codec, framer, audio, live, lfo, ioVars>>

\* one call of process by an oscillator's pitch chain
GlideProcess ==
    /\ glide.ticks < MaxTicks
    /\ \E n \in BufferSizes :
       \E r \in {PortamentoProcess(glide.state, glide.target_freq,
                                   glide.portamento_amount, n)} :
          LET ticked == \E i \in 0..(n - 1) : (glide.state.counter + i) % ControlPeriod = 0
          IN  glide' = [glide EXCEPT
                          !.state = r.state,
                          !.buffer = r.out,
                          !.first = glide.since + 1,
                          !.since = IF glide.since + n > ControlPeriod THEN ControlPeriod
                                    ELSE glide.since + n,
                          !.tick = [happened |-> ticked,
                                    before |-> glide.state.current_freq,
                                    after |-> r.state.current_freq],
                          !.ticks = IF ticked THEN glide.ticks + 1 ELSE glide.ticks]
    /\ UNCHANGED <<appVars, codec, framer, audio, live, lfo, ioVars>>

GlideNext == GlideSetTarget \/ GlideSetPortamento \/ GlideProcess

SpecGlide == GlideInit /\ [][GlideNext]_vars

(***************************************************************************)
(* Claims about the glide, checked under SpecGlide.                        *)
(***************************************************************************)
\* C15: with a glide amount of 0 the output equals the target no later than
\* the next control tick, that is from the 32nd sample processed after the
\* target or the amount was set, and stays equal to it.
C15_ZeroAmountReachesTarget ==
    (glide.buffer # << >> /\ glide.portamento_amount = Num_0) =>
        \A i \in 1..Len(glide.buffer) :
            glide.first + i - 1 >= ControlPeriod => glide.buffer[i] = glide.target_freq

\* with amount 0 and the target moved from 440 Hz to 880 Hz, a buffer of 32
\* samples that starts between two ticks begins at 440 Hz and ends at 880 Hz
C15_Witness ==
    /\ glide.portamento_amount = Num_0
    /\ glide.target_freq = F32Unpack(NoteFreq(81))
    /\ Len(glide.buffer) = 32
    /\ glide.buffer[1] = Num_440
    /\ glide.buffer[32] = glide.target_freq
    /\ glide.tick.happened

\* the glide amount process works with
GlideP == F32Clamp(glide.portamento_amount, Num_0, Num_0_999)

\* x is not outside the interval between a and b
F32Between(a, x, b) ==
    \/ ~F32Lt(x, a) /\ ~F32Lt(b, x)
    \/ ~F32Lt(x, b) /\ ~F32Lt(a, x)

\* the last control tick set the frequency to the target if it was within 0.1
\* of it, and otherwise moved it no further than the target and not away
TickTowardTarget ==
    IF F32Lt(F32Abs(F32Sub(glide.target_freq, glide.tick.before)), Num_0_1)
    THEN glide.tick.after = glide.target_freq
    ELSE F32Between(glide.tick.before, glide.tick.after, glide.target_freq)

\* C16 as stated: for every glide amount in (0, 0.999] (larger ones clamped) and
\* a fixed target, each control tick moves the current frequency monotonically
\* toward the target without overshooting, sets it exactly to the target at the
\* first tick where |target - current| < 0.1, and keeps it there afterwards.
C16_GlideNeverOvershoots ==
    (glide.tick.happened /\ F32Lt(Num_0, GlideP)) => TickTowardTarget

\* C16, amended: the same for every glide amount in [2^-22, 0.999] (larger
\* ones clamped); for smaller positive amounts 1.0 - p rounds to 1.0 or next to
\* it and the rounded step can land just past the target.
C16_GlideNeverOvershootsFromMinAmount ==
    (glide.tick.happened /\ ~F32Lt(GlideP, F32Unpack(F32_2_pow_minus_22))) =>
        TickTowardTarget

\* with amount 0.25, after ticks that moved the frequency part of the way, a
\* tick found it within 0.1 of the target 880 Hz and set it to 880 Hz
C16_Witness ==
    /\ glide.tick.happened
    /\ GlideP = F32Unpack(U32Of(1048576000))
    /\ glide.target_freq = F32Unpack(NoteFreq(81))
    /\ glide.ticks >= 7
    /\ glide.tick.before # glide.target_freq
    /\ F32Lt(F32Abs(F32Sub(glide.target_freq, glide.tick.before)), Num_0_1)
    /\ glide.tick.after = glide.target_freq

(***************************************************************************)
(* The pitch controller inside the voice graph (audio.rs:509-541): each of *)
(* the three oscillators gets freq_ctrl.clone() as the base of its pitch   *)
(* chain; the clones share target_freq, portamento_amount and state        *)
(* through their Arcs.  SpecVoicePitch renders blocks through the three    *)
(* chains.                                                                 *)
(***************************************************************************)
\* control ticks that fall at the sample positions counter .. counter + n - 1
TicksWithin(counter, n) ==
    Cardinality({ i \in 0..(n - 1) : (counter + i) % ControlPeriod = 0 })

\* the voice renders one block of n frames: the pitch chains of oscillator 1,
\* 2 and 3 each call process on their clone for the n samples of the block
GlideRenderBlock ==
    /\ glide.ticks < MaxTicks
    /\ \E n \in BufferSizes :
       \E r1 \in {PortamentoProcess(glide.state, glide.target_freq,
                                    glide.portamento_amount, n)} :
       \E r2 \in {PortamentoProcess(r1.state, glide.target_freq,
                                    glide.portamento_amount, n)} :
       \E r3 \in {PortamentoProcess(r2.state, glide.target_freq,
                                    glide.portamento_amount, n)} :
          glide' = [glide EXCEPT
                      !.state = r3.state,
                      !.buffer = << >>,
                      !.tick = NoTick,
                      !.since = IF glide.since + 3 * n > ControlPeriod THEN ControlPeriod
                                ELSE glide.since + 3 * n,
                      !.ticks = glide.ticks + TicksWithin(glide.state.counter, 3 * n),
                      !.block = [n |-> n,
                                 osc |-> <<r1.out, r2.out, r3.out>>,
                                 counter_before |-> glide.state.counter,
                                 ticks |-> TicksWithin(glide.state.counter, 3 * n)]]
    /\ UNCHANGED <<appVars, codec, framer, audio, live, lfo, ioVars>>

VoicePitchNext == GlideSetTarget \/ GlideSetPortamento \/ GlideRenderBlock

SpecVoicePitch == GlideInit /\ [][VoicePitchNext]_vars

\* C27: within every rendered block the base pitch sequence delivered to
\* oscillator 1, oscillator 2 and oscillator 3 is identical sample for sample,
\* also while a glide is in progress, and rendering a block of N samples
\* advances the controller's glide state by N samples, one control tick per 32
\* output samples.
C27_OscillatorsShareOnePitchSequence ==
    glide.block.n > 0 =>
        /\ glide.block.osc[2] = glide.block.osc[1]
        /\ glide.block.osc[3] = glide.block.osc[1]
        /\ glide.state.counter = (glide.block.counter_before + glide.block.n) % ControlPeriod
        /\ glide.block.ticks = TicksWithin(glide.block.counter_before, glide.block.n)

\* the same sample sequence reaches the three oscillators in every block
\* rendered while the frequency rests on the target
SamePitchAtRest ==
    (glide.block.n > 0 /\ glide.block.osc[1][1] = glide.target_freq) =>
        /\ glide.block.osc[2] = glide.block.osc[1]
        /\ glide.block.osc[3] = glide.block.osc[1]

(***************************************************************************)
(* FastLfo (fast_lfo.rs): the phase accumulator LFO that build_voice makes *)
(* from the preset's LFO settings: SpecLfo.                                *)
(***************************************************************************)
\* process calls in a run
MaxLfoCalls == 6

\* lengths of the buffers process is called with
LfoBufferSizes == {1, 3}

\* lfo.freq values of a preset: 1.0 (the default), 12000.0, 20000.0, 96000.0 and -1.0
LfoFrequencies ==
    { F32_1, U32Of(1178304512), U32Of(1184645120), U32Of(1203470336), [hi |-> 49024, lo |-> 0] }

\* lfo.vib_amt / lfo.filt_amt values of a preset: 1.0 and 0.5
LfoAmounts == { F32_1, F32_0_5 }

\* sample rates of the output device: 48000.0 and 44100.0
LfoSampleRates == { U32Of(1195081728), U32Of(1194083328) }

\* map_lfo_waveform
map_lfo_waveform(w) ==
    CASE w = "Sine" -> "Sine"
      [] w = "Triangle" -> "Triangle"
      [] w = "Saw" -> "Saw"
      [] w = "Square" -> "Square"

\* FastLfo::new
FastLfo_new(frequency, waveform, sample_rate) ==
    [frequency |-> frequency, waveform |-> waveform, min |-> F32Negate(Num_1), max |-> Num_1,
     phase |-> Num_0, sample_rate |-> sample_rate]

\* FastLfo::set_range
FastLfo_set_range(self, min, max) == [self EXCEPT !.min = min, !.max = max]

\* `self.phase += phase_inc; if self.phase >= 1.0 { self.phase -= 1.0 }`
PhaseAdvance(phase, phase_inc) ==
    LET sum == F32Add(phase, phase_inc)
    IN  IF ~F32Lt(sum, Num_1) THEN F32Sub(sum, Num_1) ELSE sum

\* the `match self.waveform` of process
LfoRaw(waveform, phase) ==
    CASE waveform = "Sine" ->
            LET t0 == F32Sub(F32Mul(phase, Num_2), Num_1)
                t == F32Sub(F32Mul(Num_2, F32Abs(t0)), Num_1)
            IN  F32Mul(t, F32Sub(F32Add(Num_1, Num_0_5),
                                 F32Mul(F32Mul(Num_0_5, t), t)))
      [] waveform = "Saw" -> F32Sub(F32Mul(Num_2, phase), Num_1)
      [] waveform = "Square" -> IF F32Lt(phase, Num_0_5) THEN Num_1 ELSE F32Negate(Num_1)
      [] waveform = "Triangle" ->
            LET t == F32Sub(F32Mul(phase, Num_2), Num_1)
            IN  F32Sub(F32Mul(Num_2, F32Abs(t)), Num_1)

\* `offset + (raw + 1.0) * 0.5 * range`
LfoSample(raw, offset, range) ==
    F32Add(offset, F32Mul(F32Mul(F32Add(raw, Num_1), Num_0_5), range))

\* the sample loop of process over the n remaining samples: the phase
\* afterwards and the samples written
RECURSIVE LfoLoop(_, _, _, _, _, _)
LfoLoop(phase, waveform, phase_inc, range, offset, n) ==
    IF n = 0 THEN [phase |-> phase, out |-> << >>]
    ELSE CHOOSE result \in
            UNION { { [phase |-> rest.phase,
                       out |-> <<LfoSample(LfoRaw(waveform, next), offset, range)>> \o rest.out] :
                        rest \in {LfoLoop(next, waveform, phase_inc, range, offset, n - 1)} } :
                    next \in {PhaseAdvance(phase, phase_inc)} } : TRUE

\* FastLfo::process on a buffer of n samples
FastLfo_process(self, n) ==
    LET inv_sr == F32Div(Num_1, self.sample_rate)
        phase_inc == F32Mul(self.frequency, inv_sr)
        range == F32Sub(self.max, self.min)
    IN  CHOOSE result \in
            UNION { { LfoLoop(self.phase, self.waveform, inc, r, self.min, n) : r \in {range} } :
                    inc \in {phase_inc} } : TRUE

\* the LFO as build_voice makes it: FastLfo::new followed by set_range(-amt, amt)
LfoInit ==
    /\ lfo \in { [pc |-> "FastLfo",
                 self |-> FastLfo_set_range(
                              FastLfo_new(F32Unpack(f), map_lfo_waveform(w), F32Unpack(sr)),
                              F32Unpack(F32_Neg(a)), F32Unpack(a)),
                 buffer |-> << >>,
                 op |-> "new",
                 calls |-> 0] :
                 f \in LfoFrequencies, w \in LfoWaveforms, a \in LfoAmounts,
                 sr \in LfoSampleRates }
    /\ audio = EngineNone
    /\ live = EngineNone
    /\ glide = EngineNone
    /\ IoIdle
    /\ codec = CodecIdle
    /\ framer = FramerIdle
    /\ AppInit

\* one call of process by the chain that holds the LFO
LfoProcess ==
    /\ lfo.calls < MaxLfoCalls
    /\ \E n \in LfoBufferSizes :
       \E r \in {FastLfo_process(lfo.self, n)} :
          lfo' = [lfo EXCEPT !.self.phase = r.phase, !.buffer = r.out,
                             !.op = "process", !.calls = lfo.calls + 1]
    /\ UNCHANGED <<appVars, codec, framer, audio, live, glide, ioVars>>

\* FastLfo::reset
FastLfo_reset(self) == [self EXCEPT !.phase = Num_0]

\* FastLfo::set_sample_rate
FastLfo_set_sample_rate(self, sample_rate) == [self EXCEPT !.sample_rate = sample_rate]

\* reset called by the chain that holds the LFO
LfoReset ==
    /\ lfo.calls < MaxLfoCalls
    /\ lfo.op = "process"
    /\ lfo' = [lfo EXCEPT !.self = FastLfo_reset(lfo.self), !.buffer = << >>,
                          !.op = "reset", !.calls = lfo.calls + 1]
    /\ UNCHANGED <<appVars, codec, framer, audio, live, glide, ioVars>>

\* set_sample_rate called by the chain that holds the LFO, with the device's
\* sample rate
LfoSetSampleRate ==
    /\ lfo.calls < MaxLfoCalls
    /\ lfo.op = "process"
    /\ \E sr \in LfoSampleRates :
          lfo' = [lfo EXCEPT !.self = FastLfo_set_sample_rate(lfo.self, F32Unpack(sr)),
                             !.buffer = << >>,
                             !.op = "set_sample_rate", !.calls = lfo.calls + 1]
    /\ UNCHANGED <<appVars, codec, framer, audio, live, glide, ioVars>>

LfoNext ==
    \/ LfoProcess
    \/ LfoReset
    \/ LfoSetSampleRate

SpecLfo == LfoInit /\ [][LfoNext]_vars

(***************************************************************************)
(* Claims about the LFO, checked under SpecLfo.                            *)
(***************************************************************************)
\* C17: for every range [min, max], every frequency and sample rate and each
\* of the four waveforms, every sample process writes lies in [min, max].
C17_SamplesWithinRange ==
    \A i \in 1..Len(lfo.buffer) :
        /\ ~F32Lt(lfo.buffer[i], lfo.self.min)
        /\ ~F32Lt(lfo.self.max, lfo.buffer[i])

\* the same for LFO frequencies from 0 up to the sample rate, where the phase
\* stays in [0, 1)
LfoFrequencyInBand ==
    /\ ~lfo.self.frequency.neg
    /\ F32Lt(lfo.self.frequency, lfo.self.sample_rate)

SamplesWithinRangeInBand == LfoFrequencyInBand => C17_SamplesWithinRange

\* 0 <= phase < 1
PhaseInUnitInterval(phase) == ~F32Lt(phase, Num_0) /\ F32Lt(phase, Num_1)

\* C25: after every sample processed by FastLfo the phase lies in [0, 1), for
\* every frequency and sample rate the LFO can be constructed with; reset sets
\* the phase to 0 and set_sample_rate leaves the phase unchanged.
C25_PhaseInUnitInterval ==
    /\ [](lfo.op = "process" => PhaseInUnitInterval(lfo.self.phase))
    /\ [](lfo.op = "reset" => lfo.self.phase = Num_0)
    /\ [][lfo'.op = "set_sample_rate" => lfo'.self.phase = lfo.self.phase]_vars

\* the same for LFO frequencies from 0 up to the sample rate
PhaseInUnitIntervalInBand ==
    (LfoFrequencyInBand /\ lfo.op = "process") => PhaseInUnitInterval(lfo.self.phase)

\* what the render callback and the voice share, apart from the command queue
\* and the bookkeeping of the receive loop
SharedAudioState(a) ==
    [voice |-> a.voice, portamento |-> a.portamento, target |-> a.target,
     gate |-> a.gate, params |-> a.params]

\* the step applies a command of the kind in the receive loop
Applies(kind) == Len(audio'.log) = Len(audio.log) + 1 /\ audio'.applied.kind = kind

\* C22: applying NoteOn(freq) sets the shared pitch target to freq and the
\* shared gate to 1 and changes nothing else; applying NoteOff sets the gate to
\* 0 and leaves the pitch target, the glide amount and the installed voice
\* graph unchanged; the gate value is always 0 or 1.
C22_NoteCommandEffects ==
    /\ [](audio.gate \in {0, 1})
    /\ [][/\ Applies("NoteOn") =>
                SharedAudioState(audio') =
                    [SharedAudioState(audio) EXCEPT !.target = audio'.applied.freq,
                                                    !.gate = 1]
          /\ Applies("NoteOff") =>
                SharedAudioState(audio') = [SharedAudioState(audio) EXCEPT !.gate = 0]
         ]_vars

\* the callback has applied the NoteOff of a key release: the gate is back at
\* 0 and the pitch target is still the released key's frequency, not the
\* start frequency
C22_Witness ==
    /\ audio.pc = "AudioManager"
    /\ audio.applied.kind = "NoteOff"
    /\ audio.applied.seq > 0
    /\ audio.gate = 0
    /\ audio.target = NoteFreq(PianoKey)
    /\ audio.target # F32_440

(***************************************************************************)
(* Claims about the voice slot and the scope update of the callback,       *)
(* checked under SpecAudio.                                                *)
(***************************************************************************)
\* the step replaces the installed voice graph
VoiceReplaced == audio'.voice # audio.voice

\* the step is a turn of the receive loop that applied a RebuildVoice
DrainsRebuild ==
    /\ audio.cb = "drain"
    /\ audio'.cb = "drain"
    /\ Len(audio'.log) = Len(audio.log) + 1
    /\ audio'.applied.kind = "RebuildVoice"

\* a block has been rendered since a RebuildVoice was drained
BlockAfterRebuild == audio.cb = "scope" /\ audio.rebuilt # << >>

\* C21 as stated: the voice graph is replaced only while the callback drains
\* commands, never while a block is rendered; the voice slot is never empty;
\* and every block rendered after a RebuildVoice was drained is produced by the
\* graph built from the preset of the latest such command.
C21_RebuildAtBlockBoundary ==
    /\ [][VoiceReplaced => DrainsRebuild]_vars
    /\ [](Len(audio.voice) = 1)
    /\ [](BlockAfterRebuild => audio.block.by = <<build_voice(audio.rebuilt[1])>>)

\* C21, amended: the same, the last part on a two-channel output stream; on a
\* stream with any other channel count every block is zeroed and no graph
\* runs, whatever was rebuilt.
C21_RebuildAtBlockBoundaryOnStereo ==
    /\ [][VoiceReplaced => DrainsRebuild]_vars
    /\ [](Len(audio.voice) = 1)
    /\ []((BlockAfterRebuild /\ audio.channels = 2) =>
             audio.block.by = <<build_voice(audio.rebuilt[1])>>)
    /\ []((audio.cb = "scope" /\ audio.channels # 2) =>
             (audio.block.by = << >> /\ audio.block.sample = F32_0))

\* on a stereo stream the callback has drained a RebuildVoice in this turn and
\* rendered the block with the graph built from its preset, which is not the
\* graph of construction
C21_Witness ==
    /\ audio.cb = "scope"
    /\ audio.channels = 2
    /\ audio.applied.kind = "RebuildVoice"
    /\ audio.rebuilt = <<audio.applied.p>>
    /\ audio.block.by = <<build_voice(audio.applied.p)>>
    /\ audio.block.by # <<build_voice(PresetDefault)>>
    /\ audio.voice = audio.block.by

\* the step is the scope update of a callback that finds the lock held by the
\* UI thread, after which the callback returns
ScopeStepWhileUiDraws ==
    /\ audio.cb = "scope"
    /\ audio.scope_lock = "ui"
    /\ audio'.cb = "drain"

\* C23: the render callback never waits for the scope-buffer lock: when the UI
\* thread holds the lock as the callback reaches the scope update, the callback
\* takes that step all the same and returns, with the lock still the UI's; it
\* has drained its commands and rendered the complete block, and it leaves the
\* scope buffer unchanged.
C23_ScopeLockNeverWaitedFor ==
    [][ScopeStepWhileUiDraws =>
          /\ audio.empty_at = Len(audio.log)
          /\ audio.block.frames = CallbackFrames
          /\ Len(BlockData(audio.block, audio.channels)) = CallbackFrames * audio.channels
          /\ audio'.scope_buffer = audio.scope_buffer
          /\ audio'.scope_lock = "ui"]_vars

\* on a stereo stream a callback has drained commands, rendered its block and
\* returned while the UI thread draws: the buffer still holds the zeros of
\* construction, its update having been skipped
C23_Witness ==
    /\ audio.cb = "drain"
    /\ audio.channels = 2
    /\ audio.empty_at > 0
    /\ audio.scope_lock = "ui"
    /\ audio.scope_buffer = Rep(F32_0, ScopeLen)

(***************************************************************************)
(* The MIDI input callback (main.rs:257-287): handle_midi_message gets the *)
(* chunks the transport delivers, reassembles frames in sysex_buffer and   *)
(* hands each completed frame to process_sysex: SpecMidi.                  *)
(***************************************************************************)
\* frames the device sends in a run
MaxFrames == 2

\* chunks a frame is cut into, at most
MaxChunks == 4

\* lengths of the chunks the transport delivers (the last chunk of a frame is
\* whatever is left)
ChunkSizes == {1, 2, 3, 4, 5, 4100}

\* chunks that belong to no frame: a data byte pair, a lone 0xF7, a note-on
StrayChunks == { <<1, 2>>, <<247>>, <<144, 60, 100>> }

\* message.iter().position(|&x| x == 0xF0), counted from 1; 0 for None
PositionOfStart(message) ==
    LET starts == { i \in 1..Len(message) : message[i] = SYSEX_START }
    IN  IF starts = {} THEN 0 ELSE CHOOSE i \in starts : \A j \in starts : i <= j

\* the buffer after the first `if` of handle_midi_message
ReassembleChunk(buffer, message) ==
    LET start == PositionOfStart(message)
    IN  IF start > 0 THEN SubSeq(message, start, Len(message))
        ELSE IF buffer # << >> THEN buffer \o message
        ELSE buffer

\* `if let Some(&last) = buffer.last() { if last == 0xF7 ..`
FrameComplete(buffer) == buffer # << >> /\ buffer[Len(buffer)] = SYSEX_END

\* the input connection as connect_input leaves it; sysex_buffer may hold the
\* start of a frame the device did not finish
MidiNew(unfinished) ==
    [pc |-> "MidiInputConnection",
     sysex_buffer |-> unfinished,
     frame |-> << >>,
     rest |-> << >>,
     chunks |-> 0,
     passed |-> << >>,
     last |-> "none",
     idle_before |-> FALSE,
     frames |-> 0]

MidiInit ==
    /\ AppInit
    /\ midi \in { MidiNew(u) : u \in { << >>, <<240, 125, 1>> } }
    /\ scope = [pc |-> "none"]
    /\ audio = EngineNone
    /\ live = EngineNone
    /\ glide = EngineNone
    /\ lfo = EngineNone
    /\ codec = CodecIdle
    /\ framer = FramerIdle

\* handle_midi_message on one chunk: the buffer is extended or restarted, and
\* a buffer that ends in 0xF7 is passed to process_sysex and cleared; a panic
\* in process_sysex leaves the buffer as it is
HandleMidiMessage(message, m) ==
    \E buffer \in {ReassembleChunk(midi.sysex_buffer, message)} :
       IF FrameComplete(buffer)
       THEN /\ ProcessSysexOn(buffer)
            /\ midi' = [m EXCEPT !.sysex_buffer = IF app'.midi_alive THEN << >> ELSE buffer,
                                 !.passed = Append(m.passed, buffer)]
       ELSE /\ midi' = [m EXCEPT !.sysex_buffer = buffer]
            /\ UNCHANGED <<storage, status_msg, app>>

\* the device starts a frame: the transport delivers its first chunk
MidiFirstChunk ==
    /\ app.midi_alive
    /\ midi.rest = << >>
    /\ midi.frames < MaxFrames
    /\ \E name \in MidiFrameNames : \E full \in {MidiFrame(name)} :
       \E k \in ChunkSizes \cup {Len(full)} :
          /\ k <= Len(full)
          /\ HandleMidiMessage(SubSeq(full, 1, k),
                               [midi EXCEPT !.frame = full,
                                            !.rest = SubSeq(full, k + 1, Len(full)),
                                            !.chunks = 1,
                                            !.passed = << >>,
                                            !.last = "chunk",
                                            !.frames = midi.frames + 1])
    /\ UNCHANGED <<current_preset_index, codec, framer, engineVars, scope>>

\* the transport delivers the next chunk of the frame
MidiNextChunk ==
    /\ app.midi_alive
    /\ midi.rest # << >>
    /\ \E k \in ChunkSizes \cup {Len(midi.rest)} :
          /\ k <= Len(midi.rest)
          /\ midi.chunks + 1 < MaxChunks \/ k = Len(midi.rest)
          /\ HandleMidiMessage(SubSeq(midi.rest, 1, k),
                               [midi EXCEPT !.rest = SubSeq(midi.rest, k + 1, Len(midi.rest)),
                                            !.chunks = midi.chunks + 1,
                                            !.last = "chunk"])
    /\ UNCHANGED <<current_preset_index, codec, framer, engineVars, scope>>

\* between frames the transport delivers a chunk without 0xF0
MidiStrayChunk ==
    /\ app.midi_alive
    /\ midi.rest = << >>
    /\ midi.last # "stray"
    /\ \E message \in StrayChunks :
          HandleMidiMessage(message,
                            [midi EXCEPT !.last = "stray",
                                         !.idle_before = midi.sysex_buffer = << >>,
                                         !.frame = << >>,
                                         !.passed = << >>])
    /\ UNCHANGED <<current_preset_index, codec, framer, engineVars, scope>>

MidiNext ==
    \/ MidiFirstChunk
    \/ MidiNextChunk
    \/ MidiStrayChunk

SpecMidi == MidiInit /\ [][MidiNext]_vars

(***************************************************************************)
(* Claims about the reassembly, checked under SpecMidi.                    *)
(***************************************************************************)
\* the frame starts with 0xF0, ends with 0xF7 and has neither byte in between
WellDelimited(frame) ==
    /\ Len(frame) >= 2
    /\ frame[1] = SYSEX_START
    /\ frame[Len(frame)] = SYSEX_END
    /\ \A i \in 2..(Len(frame) - 1) : frame[i] # SYSEX_START /\ frame[i] # SYSEX_END

\* C24: for every frame that starts with 0xF0, ends with 0xF7 and contains
\* neither byte in between, and for every way of cutting it into consecutive
\* non-empty chunks delivered in order, process_sysex is invoked exactly once,
\* with exactly the original frame, when the last chunk arrives, and the
\* reassembly buffer is empty afterwards; bytes arriving while no frame is in
\* progress are discarded; a chunk containing 0xF0 discards any unfinished
\* frame and restarts from that 0xF0.
C24_FrameReassembledOnce ==
    /\ (midi.pc = "MidiInputConnection" /\ midi.last = "chunk" /\ WellDelimited(midi.frame)) =>
          IF midi.rest = << >>
          THEN midi.passed = <<midi.frame>> /\ midi.sysex_buffer = << >>
          ELSE midi.passed = << >>
                  /\ midi.sysex_buffer = SubSeq(midi.frame, 1, Len(midi.frame) - Len(midi.rest))
    /\ (midi.pc = "MidiInputConnection" /\ midi.last = "stray" /\ midi.idle_before) =>
          midi.passed = << >> /\ midi.sysex_buffer = << >>

\* the same for the frames on which process_sysex returns
FrameReassembledOnceUnlessPanic ==
    (midi.pc = "MidiInputConnection" /\ app.midi_alive) => C24_FrameReassembledOnce

(***************************************************************************)
(* The oscilloscope buffer (audio.rs:366, 413-435): after rendering, the   *)
(* callback copies the first channel of the block into a rolling buffer of *)
(* 1024 samples, when try_lock on the buffer succeeds.                     *)
(***************************************************************************)
\* callbacks in a run of SpecScope
MaxBlocks == 3

\* frames per callback buffer
BlockFrames == {1, 300, 1024, 1500}

\* the untouched sample of the buffer at construction
ScopeZero == <<0, 0>>

\* an interleaved block of `frames` frames whose samples are told apart by the
\* number of their frame (counted over the run, from `first`) and their channel
NumberedBlock(first, frames, channels) ==
    AsVec([j \in 1..(frames * channels) |->
              <<first + ((j - 1) \div channels), (j - 1) % channels>>])

\* the first-channel samples of a block, in frame order
FirstChannel(data, channels) ==
    AsVec([i \in 1..(Len(data) \div channels) |-> data[(i - 1) * channels + 1]])

\* the last n elements of a sequence of at least n elements
LastOf(s, n) == SubSeq(s, Len(s) - n + 1, Len(s))

ScopeNew(channels) ==
    [pc |-> "scope",
     channels |-> channels,
     scope_buffer |-> Rep(ScopeZero, ScopeLen),
     history |-> << >>,
     before |-> << >>,
     block |-> << >>,
     skipped |-> FALSE,
     frames |-> 0,
     blocks |-> 0]

ScopeInit ==
    /\ scope \in { ScopeNew(channels) : channels \in ChannelCounts }
    /\ midi = [pc |-> "none"]
    /\ audio = EngineNone
    /\ live = EngineNone
    /\ glide = EngineNone
    /\ lfo = EngineNone
    /\ codec = CodecIdle
    /\ framer = FramerIdle
    /\ AppInit

\* the scope update at the end of one callback, for a rendered block of
\* `frames` frames: try_lock succeeds or, the UI drawing the buffer, fails
ScopeCallbackBlock ==
    /\ scope.blocks < MaxBlocks
    /\ \E frames \in BlockFrames, try_lock_ok \in BOOLEAN :
       \E data \in {NumberedBlock(scope.frames, frames, scope.channels)} :
          scope' = [scope EXCEPT
                      !.scope_buffer = IF try_lock_ok
                                       THEN ScopeUpdate(scope.scope_buffer, data, scope.channels)
                                       ELSE scope.scope_buffer,
                      !.history = IF try_lock_ok
                                  THEN scope.history \o FirstChannel(data, scope.channels)
                                  ELSE scope.history,
                      !.before = scope.scope_buffer,
                      !.block = FirstChannel(data, scope.channels),
                      !.skipped = ~try_lock_ok,
                      !.frames = scope.frames + frames,
                      !.blocks = scope.blocks + 1]
    /\ UNCHANGED <<appVars, codec, framer, engineVars, midi>>

ScopeNext == ScopeCallbackBlock

SpecScope == ScopeInit /\ [][ScopeNext]_vars

\* C29: the scope buffer always has length 1024 and holds, oldest first, the
\* first-channel samples of the most recent 1024 frames of the rendered blocks
\* whose scope update was not skipped (behind the zeros of construction while
\* fewer than 1024 such frames exist); a block of at least 1024 frames
\* overwrites it with its last 1024 frames, a shorter block of k frames shifts
\* the content left by k and appends its k frames.
C29_ScopeHoldsLatestFrames ==
    /\ Len(scope.scope_buffer) = ScopeLen
    /\ scope.scope_buffer = LastOf(Rep(ScopeZero, ScopeLen) \o scope.history, ScopeLen)
    /\ (scope.blocks > 0 /\ ~scope.skipped) =>
          LET k == Len(scope.block)
          IN  IF k >= ScopeLen
              THEN scope.scope_buffer = LastOf(scope.block, ScopeLen)
              ELSE scope.scope_buffer = SubSeq(scope.before, k + 1, ScopeLen) \o scope.block

\* a stereo run: a block of 1500 frames, a skipped block, then a block of 300
\* frames; the buffer holds frames 776..1499 of the first block followed by the
\* 300 frames of the third
C29_Witness ==
    /\ scope.channels = 2
    /\ scope.blocks = 3
    /\ ~scope.skipped
    /\ Len(scope.block) = 300
    /\ Len(scope.history) = 1800
    /\ scope.scope_buffer[1] = <<776, 0>>
    /\ scope.scope_buffer[724] = <<1499, 0>>
    /\ scope.scope_buffer[725] = scope.block[1]
    /\ scope.frames > 1800

(***************************************************************************)
(* The three threads around the engine: the UI thread (PicoEditApp::update *)
(* with send_note and draw_visualizer), the MIDI input thread (process_    *)
(* sysex replacing the bank under its lock) and the render callback, with  *)
(* the scheduling the claim assumes: SpecAudioLive.                        *)
(***************************************************************************)
\* the UI thread holds the bank lock: it is inside the send of update_preset,
\* which send_note and update call with the guard alive (main.rs:385-389,
\* 535-539); note_on and note_off are called after drop(storage)
BankLockedByUi ==
    /\ audio.pending # << >>
    /\ Head(audio.pending).kind \in {"UpdatePreset", "RebuildVoice"}

\* the MIDI input thread has decoded a dump and reaches
\* `*storage_clone.lock().unwrap() = new_storage`
MidiWantsBank ==
    /\ audio.bank_waiter = "none"
    /\ audio' = [audio EXCEPT !.bank_waiter = "midi"]
    /\ UNCHANGED <<appVars, codec, framer, live, glide, lfo, ioVars>>

\* the lock is free: the MIDI input thread takes it, stores the bank of the
\* dump (the device sends back the bank of the runs) and releases it
MidiReplacesBank ==
    /\ audio.bank_waiter = "midi"
    /\ ~BankLockedByUi
    /\ storage' = AudioBank
    /\ audio' = [audio EXCEPT !.bank_waiter = "none"]
    /\ UNCHANGED <<current_preset_index, status_msg, app, codec, framer, live, glide, lfo,
                   ioVars>>

\* local audio on a stereo device with the bank of three presets loaded
AudioLiveInit ==
    /\ AudioInit
    /\ audio.audio_mode = "Local"
    /\ audio.channels = 2
    /\ storage = AudioBank

CallbackStep ==
    \/ CallbackReceives
    \/ CallbackObservesEmpty
    \/ CallbackRenders
    \/ CallbackUpdatesScope

\* the user plays the piano: every send_note calls update_preset under the
\* bank lock and then note_on or note_off
AudioLiveNext ==
    \/ UiNotePress
    \/ UiNoteRelease
    \/ UiSendResumes
    \/ UiDrawsVisualizer
    \/ UiLeavesVisualizer
    \/ MidiWantsBank
    \/ MidiReplacesBank
    \/ CallbackStep

\* the stream keeps invoking the callback, which never blocks; a sender
\* blocked on the full channel is woken once there is room; a thread waiting
\* for the bank lock gets it once it stays free
SpecAudioLive ==
    /\ AudioLiveInit
    /\ [][AudioLiveNext]_vars
    /\ WF_vars(CallbackStep)
    /\ WF_vars(UiSendResumes)
    /\ WF_vars(MidiReplacesBank)

\* C28: with the callback being invoked again and again, every command
\* enqueued by note_on, note_off or update_preset is eventually applied,
\* exactly once; a call that found the queue full eventually returns; and the
\* MIDI input thread waiting for the bank lock eventually gets it: no thread
\* stays blocked on the command queue, the bank lock or the scope-buffer lock.
C28_CommandsAppliedAndNoDeadlock ==
    /\ []<>(Len(audio.log) = audio.created)
    /\ (audio.pending # << >>) ~> (audio.pending = << >>)
    /\ (audio.bank_waiter = "midi") ~> (audio.bank_waiter = "none")
    /\ [](\A i, j \in 1..Len(audio.log) : audio.log[i] = audio.log[j] => i = j)
    /\ [](\A i \in 1..Len(audio.log) : audio.log[i] \in 1..audio.created)

\* the handler of the last UI event found the queue full in a send, has
\* returned since, and every command created so far has been applied
C28_Witness ==
    /\ audio.event.blocked
    /\ audio.pending = << >>
    /\ audio.created > QueueCapacity
    /\ Len(audio.log) = audio.created
    /\ audio.queue = << >>

====
